---- MODULE Spec2Model ----
(***************************************************************************)
(* Model of the template compilation engine                                *)
(* (packages/cli/src/enterprise/templates/engine.ts).                      *)
(*                                                                         *)
(* Text is a sequence of one-character strings, so that the regular        *)
(* expressions of the engine are modelled character by character.          *)
(* A JavaScript value is a tagged record:                                  *)
(*   [t |-> "undef"]  [t |-> "null"]  [t |-> "bool", b |-> BOOLEAN]        *)
(*   [t |-> "num", n |-> Int]   [t |-> "num", nan |-> TRUE] (the number    *)
(*   NaN)  [t |-> "str", s |-> text]  [t |-> "arr", a |-> sequence]        *)
(*   [t |-> "obj", o |-> sequence of [k |-> text, v |-> value]]            *)
(*   [t |-> "fn", name |-> text]  (a function of Object.prototype)         *)
(* A Record<string, unknown> is a sequence of [k, v] entries in insertion  *)
(* order (the order of Object.entries).  A template, a variable definition *)
(* and a section are TLA+ records whose DOMAIN is the set of own           *)
(* properties of the object.  Where the identity of the objects matters    *)
(* (what compile and render write, what two calls share), the same code is *)
(* modelled a second time on a heap of objects held by reference; the      *)
(* specification Spec runs on it.                                          *)
(*                                                                         *)
(* Outside the model: the $-patterns of String.prototype.replace (no text  *)
(* of the model has a $), a variable declared or provided under the name   *)
(* __proto__ (writing it changes the prototype), a mapping whose prototype *)
(* is not Object.prototype, numbers written otherwise than as signed       *)
(* decimal integers, the numeric-key ordering of Object.entries, a         *)
(* property that is present with the value undefined                       *)
(* where the model leaves the property out (sections, condition, title,    *)
(* content), the sort of a list of 64 or more sections whose orders are    *)
(* not all numbers, and, among the keys of a loop element, which the code  *)
(* compiles into a regular expression, those written with the syntax       *)
(* listed where the regular expressions are modelled, and an array or an   *)
(* object that holds a function among its own values (the values of the    *)
(* model hold data; a function is what a lookup finds on Object.prototype),*)
(* so that an object with an own property toString has no primitive value  *)
(* and String and Number throw a TypeError for it.                         *)
(***************************************************************************)
EXTENDS Integers, Sequences, FiniteSets, TLC

(***************************************************************************)
(* Characters and character classes                                        *)
(***************************************************************************)
Lower == {"a","b","c","d","e","f","g","h","i","j","k","l","m",
          "n","o","p","q","r","s","t","u","v","w","x","y","z"}

Upper == {"A","B","C","D","E","F","G","H","I","J","K","L","M",
          "N","O","P","Q","R","S","T","U","V","W","X","Y","Z"}

Digit == {"0","1","2","3","4","5","6","7","8","9"}

\* \w of the regular expressions
WordCh == Lower \cup Upper \cup Digit \cup {"_"}

\* \s of the regular expressions (the white space the model's texts use)
SpaceCh == {" ", "\n", "\t"}

LowerSeq == <<"a","b","c","d","e","f","g","h","i","j","k","l","m",
              "n","o","p","q","r","s","t","u","v","w","x","y","z">>

UpperSeq == <<"A","B","C","D","E","F","G","H","I","J","K","L","M",
              "N","O","P","Q","R","S","T","U","V","W","X","Y","Z">>

DigitSeq == <<"0","1","2","3","4","5","6","7","8","9">>

IndexIn(seq, c) == CHOOSE i \in 1..Len(seq) : seq[i] = c

ToUpperCh(c) == IF c \in Lower THEN UpperSeq[IndexIn(LowerSeq, c)] ELSE c

ToLowerCh(c) == IF c \in Upper THEN LowerSeq[IndexIn(UpperSeq, c)] ELSE c

toUpperCase(s) == [i \in 1..Len(s) |-> ToUpperCh(s[i])]

toLowerCase(s) == [i \in 1..Len(s) |-> ToLowerCh(s[i])]

(***************************************************************************)
(* Text primitives                                                         *)
(***************************************************************************)
\* the literal lit occurs in s at index i
MatchAt(s, i, lit) ==
  /\ i >= 1
  /\ i + Len(lit) - 1 <= Len(s)
  /\ \A k \in 1..Len(lit) : s[i + k - 1] = lit[k]

\* the least element of a set of indices, 0 when the set is empty
FirstOf(S) == IF S = {} THEN 0 ELSE CHOOSE j \in S : \A k \in S : j <= k

\* String.prototype.indexOf from index i: first index >= i where lit occurs, 0 if none
FindLit(s, i, lit) == FirstOf({j \in i..(Len(s) - Len(lit) + 1) : MatchAt(s, j, lit)})

\* String.prototype.includes
Includes(s, lit) == FindLit(s, 1, lit) # 0

\* first index >= i whose character is not in the class cls (Len(s)+1 if none)
RunEnd(s, i, cls) ==
  IF i > Len(s) THEN i
  ELSE CHOOSE j \in i..(Len(s) + 1) :
         /\ (j = Len(s) + 1 \/ s[j] \notin cls)
         /\ \A k \in i..(j - 1) : s[k] \in cls

\* first index >= i whose character is in the class cls (Len(s)+1 if none)
FindClass(s, i, cls) ==
  IF i > Len(s) THEN i
  ELSE CHOOSE j \in i..(Len(s) + 1) :
         /\ (j = Len(s) + 1 \/ s[j] \in cls)
         /\ \A k \in i..(j - 1) : s[k] \notin cls

\* s.replace(/lit/g, rep) for a pattern without metacharacters, from index i on
RECURSIVE ReplaceAll(_, _, _, _)
ReplaceAll(s, i, lit, rep) ==
  LET p == FindLit(s, i, lit) IN
  IF p = 0 THEN SubSeq(s, i, Len(s))
  ELSE SubSeq(s, i, p - 1) \o rep \o ReplaceAll(s, p + Len(lit), lit, rep)

\* s.replace(lit, rep) with a string pattern: the first occurrence only
ReplaceFirst(s, lit, rep) ==
  LET p == FindLit(s, 1, lit) IN
  IF p = 0 THEN s
  ELSE SubSeq(s, 1, p - 1) \o rep \o SubSeq(s, p + Len(lit), Len(s))

\* String.prototype.trim
Trim(s) ==
  LET a == RunEnd(s, 1, SpaceCh)
      b == IF a > Len(s) THEN 0
           ELSE CHOOSE j \in a..Len(s) :
                  s[j] \notin SpaceCh /\ \A k \in (j + 1)..Len(s) : s[k] \in SpaceCh
  IN  SubSeq(s, a, b)

\* concatenation of a sequence of texts with a separator (Array.prototype.join on texts)
RECURSIVE JoinText(_, _)
JoinText(parts, sep) ==
  IF Len(parts) = 0 THEN <<>>
  ELSE IF Len(parts) = 1 THEN parts[1]
  ELSE parts[1] \o sep \o JoinText(Tail(parts), sep)

(***************************************************************************)
(* Literals of the interpolation language                                  *)
(***************************************************************************)
LB == <<"{","{">>

RB == <<"}","}">>

T_if == <<"{","{","#","i","f">>

T_else == <<"{","{","e","l","s","e","}","}">>

T_endif == <<"{","{","/","i","f","}","}">>

T_unless == <<"{","{","#","u","n","l","e","s","s">>

T_endunless == <<"{","{","/","u","n","l","e","s","s","}","}">>

T_each == <<"{","{","#","e","a","c","h">>

T_endeach == <<"{","{","/","e","a","c","h","}","}">>

T_this == <<"{","{","t","h","i","s","}","}">>

T_index == <<"{","{","@","i","n","d","e","x","}","}">>

T_first == <<"{","{","@","f","i","r","s","t","}","}">>

T_last == <<"{","{","@","l","a","s","t","}","}">>

(***************************************************************************)
(* JavaScript values                                                       *)
(***************************************************************************)
Undef == [t |-> "undef"]

Null == [t |-> "null"]

Bool(b) == [t |-> "bool", b |-> b]

Num(n) == [t |-> "num", n |-> n]

Str(s) == [t |-> "str", s |-> s]

Arr(a) == [t |-> "arr", a |-> a]

Obj(o) == [t |-> "obj", o |-> o]

\* a built-in function, by its name
Fn(name) == [t |-> "fn", name |-> name]

\* an array or an object that the caller holds in more than one place: the
\* value with the identity ref.  An array or an object without ref is held in
\* one place only, as a literal is
Shared(value, ref) == value @@ [ref |-> ref]

\* a and b are one and the same array or object
SameObject(a, b) == "ref" \in DOMAIN a /\ "ref" \in DOMAIN b /\ a.ref = b.ref

\* the number NaN: a number without an integer value
NaN == [t |-> "num", nan |-> TRUE]

IsNaN(v) == v.t = "num" /\ "nan" \in DOMAIN v

\* the value of the entry of key k of an ordered record m, undefined when m
\* has no entry of that key
RECURSIVE LookupFrom(_, _, _)
LookupFrom(m, i, k) ==
  IF i > Len(m) THEN Undef
  ELSE IF m[i].k = k THEN m[i].v
  ELSE LookupFrom(m, i + 1, k)

\* map.get(k) for a Map m
MapGet(m, k) == LookupFrom(m, 1, k)

Keys(m) == {m[i].k : i \in 1..Len(m)}

N_constructor == <<"c","o","n","s","t","r","u","c","t","o","r">>

N_toString == <<"t","o","S","t","r","i","n","g">>

\* Object.prototype, whose properties every object written as a literal or
\* parsed from a text inherits: the functions by name, and __proto__, which
\* reads as Object.prototype itself, an object without entries
ObjectPrototype ==
  << [k |-> N_constructor, v |-> Fn(<<"O","b","j","e","c","t">>)],
     [k |-> <<"_","_","d","e","f","i","n","e","G","e","t","t","e","r","_","_">>,
      v |-> Fn(<<"_","_","d","e","f","i","n","e","G","e","t","t","e","r","_","_">>)],
     [k |-> <<"_","_","d","e","f","i","n","e","S","e","t","t","e","r","_","_">>,
      v |-> Fn(<<"_","_","d","e","f","i","n","e","S","e","t","t","e","r","_","_">>)],
     [k |-> <<"h","a","s","O","w","n","P","r","o","p","e","r","t","y">>,
      v |-> Fn(<<"h","a","s","O","w","n","P","r","o","p","e","r","t","y">>)],
     [k |-> <<"_","_","l","o","o","k","u","p","G","e","t","t","e","r","_","_">>,
      v |-> Fn(<<"_","_","l","o","o","k","u","p","G","e","t","t","e","r","_","_">>)],
     [k |-> <<"_","_","l","o","o","k","u","p","S","e","t","t","e","r","_","_">>,
      v |-> Fn(<<"_","_","l","o","o","k","u","p","S","e","t","t","e","r","_","_">>)],
     [k |-> <<"i","s","P","r","o","t","o","t","y","p","e","O","f">>,
      v |-> Fn(<<"i","s","P","r","o","t","o","t","y","p","e","O","f">>)],
     [k |-> <<"p","r","o","p","e","r","t","y","I","s","E","n","u","m","e","r","a","b","l","e">>,
      v |-> Fn(<<"p","r","o","p","e","r","t","y","I","s","E","n","u","m","e","r","a","b","l","e">>)],
     [k |-> N_toString, v |-> Fn(N_toString)],
     [k |-> <<"v","a","l","u","e","O","f">>, v |-> Fn(<<"v","a","l","u","e","O","f">>)],
     [k |-> <<"_","_","p","r","o","t","o","_","_">>, v |-> Shared(Obj(<<>>), 0)],
     [k |-> <<"t","o","L","o","c","a","l","e","S","t","r","i","n","g">>,
      v |-> Fn(<<"t","o","L","o","c","a","l","e","S","t","r","i","n","g">>)] >>

\* m[k] for a Record<string, unknown> m: the value of the own property k,
\* and where m has none the value Object.prototype has for k, undefined when
\* that has none either
Lookup(m, k) ==
  IF k \in Keys(m) THEN LookupFrom(m, 1, k) ELSE LookupFrom(ObjectPrototype, 1, k)

\* m[k] = v on an ordered record: an existing key keeps its place
SetKey(m, k, v) ==
  IF k \in Keys(m)
  THEN [i \in 1..Len(m) |-> IF m[i].k = k THEN [k |-> k, v |-> v] ELSE m[i]]
  ELSE Append(m, [k |-> k, v |-> v])

\* o.f for a TLA+ record o that models an object: undefined when f is no own property
Get(o, f) == IF f \in DOMAIN o THEN o[f] ELSE Undef

\* decimal digits of a natural number
RECURSIVE NatStr(_)
NatStr(n) == IF n < 10 THEN <<DigitSeq[n + 1]>> ELSE NatStr(n \div 10) \o <<DigitSeq[(n % 10) + 1]>>

IntStr(n) == IF n < 0 THEN <<"-">> \o NatStr(-n) ELSE NatStr(n)

S_true == <<"t","r","u","e">>

S_false == <<"f","a","l","s","e">>

S_null == <<"n","u","l","l">>

S_undefined == <<"u","n","d","e","f","i","n","e","d">>

S_NaN == <<"N","a","N">>

S_object == <<"[","o","b","j","e","c","t"," ","O","b","j","e","c","t","]">>

\* the text of a built-in function: function name() { [native code] }
S_function == <<"f","u","n","c","t","i","o","n"," ">>

S_nativeCode ==
  <<"(",")"," ","{"," ","[","n","a","t","i","v","e"," ","c","o","d","e","]"," ","}">>

\* the mark of the TypeError a conversion to a primitive value throws: a text
\* that holds it stands for the exception thrown while it was computed
PrimitiveErrorMark == "TypeError: Cannot convert object to primitive value"

\* what String(v) gives when the conversion throws
Unconvertible == <<PrimitiveErrorMark>>

\* what an expression gives that throws instead of giving a value
Thrown(mark) == [t |-> "throw", error |-> mark]

IsThrown(v) == v.t = "throw"

\* OrdinaryToPrimitive finds no method that gives a primitive value: the
\* object has an own property toString, which holds no function, and the
\* valueOf it inherits returns the object itself
NoPrimitive(v) == v.t = "obj" /\ N_toString \in Keys(v.o)

\* String(v): Unconvertible when the conversion throws, as it does for an
\* object without primitive value and for an array that holds one
RECURSIVE ToStr(_)
\* the texts Array.prototype.join joins: null and undefined elements give the
\* empty string
ElementTexts(a) ==
  [i \in 1..Len(a) |-> IF a[i].t \in {"null", "undef"} THEN <<>> ELSE ToStr(a[i])]

\* the texts joined, when the conversion of none of them threw
JoinConverted(parts, sep) ==
  IF \E i \in 1..Len(parts) : parts[i] = Unconvertible THEN Unconvertible
  ELSE JoinText(parts, sep)

\* Array.prototype.join
ArrJoin(a, sep) == JoinConverted(ElementTexts(a), sep)

ToStr(v) ==
  CASE v.t = "str" -> v.s
    [] v.t = "num" -> IF IsNaN(v) THEN S_NaN ELSE IntStr(v.n)
    [] v.t = "bool" -> IF v.b THEN S_true ELSE S_false
    [] v.t = "null" -> S_null
    [] v.t = "undef" -> S_undefined
    [] v.t = "arr" -> ArrJoin(v.a, <<",">>)
    [] v.t = "obj" -> IF NoPrimitive(v) THEN Unconvertible ELSE S_object
    [] v.t = "fn" -> S_function \o v.name \o S_nativeCode

\* String(x) throws; so does x ? String(x) : undefined, as no such value is
\* falsy
Unconverted(x) == ToStr(x) = Unconvertible

\* the falsy values of JavaScript (operand of ||, ?: and !)
Falsy(v) ==
  \/ v.t \in {"undef", "null"}
  \/ v.t = "bool" /\ ~v.b
  \/ v.t = "num" /\ (IsNaN(v) \/ v.n = 0)
  \/ v.t = "str" /\ v.s = <<>>

\* a || b
OrElse(a, b) == IF Falsy(a) THEN b ELSE a

\* value of a run of decimal digits
RECURSIVE DigitsVal(_, _)
DigitsVal(s, acc) ==
  IF s = <<>> THEN acc
  ELSE DigitsVal(Tail(s), acc * 10 + (IndexIn(DigitSeq, Head(s)) - 1))

IsDigits(s) == s # <<>> /\ \A i \in 1..Len(s) : s[i] \in Digit

\* Number(s) for a string: white space is trimmed, the empty string is 0, an
\* optionally signed run of decimal digits is its value, any other text of the
\* model's alphabet is NaN
TrimmedToNum(s) ==
  IF s = <<>> THEN Num(0)
  ELSE IF IsDigits(s) THEN Num(DigitsVal(s, 0))
  ELSE IF Head(s) = "-" /\ IsDigits(Tail(s)) THEN Num(0 - DigitsVal(Tail(s), 0))
  ELSE IF Head(s) = "+" /\ IsDigits(Tail(s)) THEN Num(DigitsVal(Tail(s), 0))
  ELSE NaN

StrToNum(s0) == TrimmedToNum(Trim(s0))

\* Number(s) for the text String gave, which throws when String threw
ConvertedToNum(s) == IF s = Unconvertible THEN Thrown(PrimitiveErrorMark) ELSE StrToNum(s)

\* Number(v), as a value: an array and an object are converted to the text
\* String gives for them (the valueOf they inherit returns the object itself)
ToNum(v) ==
  CASE v.t = "num" -> v
    [] v.t = "str" -> StrToNum(v.s)
    [] v.t = "bool" -> IF v.b THEN Num(1) ELSE Num(0)
    [] v.t = "null" -> Num(0)
    [] v.t = "undef" -> NaN
    [] v.t = "arr" -> ConvertedToNum(ToStr(v))
    [] v.t = "obj" -> ConvertedToNum(ToStr(v))
    [] v.t = "fn" -> NaN

(***************************************************************************)
(* The clock read by new Date(): an instant is a number of seconds after   *)
(* 2026-10-29 23:59:58 local time, so that one tick changes the seconds,   *)
(* and two ticks change every field down from the day.                     *)
(***************************************************************************)
DateOf(n) ==
  LET total == 23 * 3600 + 59 * 60 + 58 + n IN
  [year |-> 2026, month |-> 10, day |-> 29 + (total \div 86400),
   hours |-> (total \div 3600) % 24, minutes |-> (total \div 60) % 60,
   seconds |-> total % 60]

\* String(n).padStart(2, '0')
pad(n) == IF n < 10 THEN <<"0">> \o NatStr(n) ELSE NatStr(n)

formatDate(date, format) ==
  LET f1 == ReplaceFirst(format, <<"Y","Y","Y","Y">>, NatStr(date.year))
      f2 == ReplaceFirst(f1, <<"M","M">>, pad(date.month))
      f3 == ReplaceFirst(f2, <<"D","D">>, pad(date.day))
      f4 == ReplaceFirst(f3, <<"H","H">>, pad(date.hours))
      f5 == ReplaceFirst(f4, <<"m","m">>, pad(date.minutes))
  IN  ReplaceFirst(f5, <<"s","s">>, pad(date.seconds))

\* the greatest instant of the clock
MaxTicks == 2

\* The clock as one call of the engine sees it.  Every call of the date helper
\* executes new Date(), and seconds may pass between two of them: a clock has
\* the instant the call starts at, the seconds that pass before each reading
\* of the call, and the number of readings taken so far.
\* the clock of a call during which no second passes
Steady(n) == [at |-> n, ticks |-> <<>>, taken |-> 0]

\* the seconds passed when the k-th reading of the call is taken
RECURSIVE Elapsed(_, _)
Elapsed(ticks, k) ==
  IF k = 0 THEN 0
  ELSE (IF k <= Len(ticks) THEN ticks[k] ELSE 0) + Elapsed(ticks, k - 1)

\* new Date(): the instant of the next reading
ReadClock(clock) == clock.at + Elapsed(clock.ticks, clock.taken + 1)

\* the clock once n more readings are taken
After(clock, n) == [clock EXCEPT !.taken = @ + n]

\* the seconds before each of n readings, room seconds at most in all
RECURSIVE TicksOf(_, _)
TicksOf(n, room) ==
  IF n = 0 THEN {<<>>}
  ELSE UNION {{<<d>> \o t : t \in TicksOf(n - 1, room - d)} : d \in 0..room}

\* the clocks that a call which starts at the instant at and reads the clock n
\* times may see
Clocks(at, n) == {[at |-> at, ticks |-> t, taken |-> 0] : t \in TicksOf(n, MaxTicks - at)}

\* the instant of the last of the n readings of a call: the instant the call
\* started at when it took none
LastReading(clock, n) == clock.at + Elapsed(clock.ticks, n)

(***************************************************************************)
(* Built-in helpers (registerDefaultHelpers)                               *)
(***************************************************************************)
H_date == <<"d","a","t","e">>

H_uppercase == <<"u","p","p","e","r","c","a","s","e">>

H_lowercase == <<"l","o","w","e","r","c","a","s","e">>

H_capitalize == <<"c","a","p","i","t","a","l","i","z","e">>

H_join == <<"j","o","i","n">>

H_default == <<"d","e","f","a","u","l","t">>

H_length == <<"l","e","n","g","t","h">>

H_truncate == <<"t","r","u","n","c","a","t","e">>

H_slug == <<"s","l","u","g">>

\* args[i] of a JavaScript array (1-based here): undefined past the end
ArgAt(args, i) == IF i <= Len(args) THEN args[i] ELSE Undef

\* a value that stands for the TypeError thrown by format.replace when the
\* format argument of the date helper is a truthy non-string
TypeErrorMark == "TypeError: format.replace is not a function"

S_defaultFormat == <<"Y","Y","Y","Y","-","M","M","-","D","D">>

S_commaSpace == <<",", " ">>

S_ellipsis == <<".", ".", ".">>

\* const format = args[0] as string || 'YYYY-MM-DD'
DateFormat(args) == OrElse(ArgAt(args, 1), Str(S_defaultFormat))

\* const date = new Date(); return this.formatDate(date, format)
HelperDate(args, clock) ==
  IF DateFormat(args).t = "str"
  THEN Str(formatDate(DateOf(ReadClock(clock)), DateFormat(args).s))
  ELSE Str(<<TypeErrorMark>>)

\* String(args[0] || '').toUpperCase(): the mark of a conversion that threw is
\* no letter and stays as it is
HelperUppercase(args) == Str(toUpperCase(ToStr(OrElse(ArgAt(args, 1), Str(<<>>)))))

HelperLowercase(args) == Str(toLowerCase(ToStr(OrElse(ArgAt(args, 1), Str(<<>>)))))

\* str.charAt(0).toUpperCase() + str.slice(1)
CapitalizeText(str) ==
  IF str = <<>> \/ str = Unconvertible THEN str ELSE <<ToUpperCh(str[1])>> \o Tail(str)

HelperCapitalize(args) == Str(CapitalizeText(ToStr(OrElse(ArgAt(args, 1), Str(<<>>)))))

\* arr.join(separator), or String(arr), once the separator is converted
JoinWith(arr, separator) ==
  IF separator = Unconvertible THEN Str(Unconvertible)
  ELSE IF arr.t = "arr" THEN Str(ArrJoin(arr.a, separator))
  ELSE Str(ToStr(arr))

HelperJoin(args) == JoinWith(ArgAt(args, 1), ToStr(OrElse(ArgAt(args, 2), Str(S_commaSpace))))

HelperDefault(args) ==
  LET a0 == ArgAt(args, 1) IN
  IF a0 # Undef /\ a0 # Null /\ a0 # Str(<<>>) THEN a0 ELSE ArgAt(args, 2)

HelperLength(args) ==
  LET val == ArgAt(args, 1) IN
  IF val.t = "arr" THEN Num(Len(val.a))
  ELSE IF val.t = "str" THEN Num(Len(val.s))
  ELSE Num(0)

\* str.slice(0, end)
Slice0(str, end) ==
  LET e == IF end < 0 THEN (IF Len(str) + end < 0 THEN 0 ELSE Len(str) + end)
           ELSE (IF end > Len(str) THEN Len(str) ELSE end)
  IN  SubSeq(str, 1, e)

\* str.length <= len ? str : str.slice(0, len) + '...'
TruncateTo(str, len) ==
  IF Len(str) <= len THEN Str(str) ELSE Str(Slice0(str, len) \o S_ellipsis)

\* the helper once String(args[0] || '') and Number(args[1]) are evaluated, in
\* that order: either may have thrown
TruncateWith(str, number) ==
  IF str = Unconvertible \/ IsThrown(number) THEN Str(Unconvertible)
  ELSE TruncateTo(str, OrElse(number, Num(100)).n)

HelperTruncate(args) ==
  TruncateWith(ToStr(OrElse(ArgAt(args, 1), Str(<<>>))), ToNum(ArgAt(args, 2)))

\* s.replace(/[^a-z0-9]+/g, '-'): every maximal run of other characters
\* becomes one hyphen
HyphenateRuns(s) ==
  LET keep == Lower \cup Digit
      marked == [i \in 1..Len(s) |->
                   IF s[i] \in keep THEN s[i]
                   ELSE IF i = 1 \/ s[i - 1] \in keep THEN "-"
                   ELSE ""]
      Kept(c) == c # ""
  IN  SelectSeq(marked, Kept)

\* s.replace(/^-|-$/g, ''): one hyphen off the start, one off the end
StripHyphens(s) ==
  LET a == IF s # <<>> /\ Head(s) = "-" THEN Tail(s) ELSE s IN
  IF a # <<>> /\ a[Len(a)] = "-" THEN SubSeq(a, 1, Len(a) - 1) ELSE a

\* the helper once String(args[0] || '') is evaluated
SlugOf(str) ==
  IF str = Unconvertible THEN Str(Unconvertible)
  ELSE Str(StripHyphens(HyphenateRuns(toLowerCase(str))))

HelperSlug(args) == SlugOf(ToStr(OrElse(ArgAt(args, 1), Str(<<>>))))

\* the helpers map: an ordered record from helper name to helper; a built-in
\* helper is [t |-> "builtin"], a helper registered by registerHelper that
\* returns a fixed text is [t |-> "const", s |-> text]
Builtin == [t |-> "builtin"]

ConstHelper(text) == [t |-> "const", s |-> text]

\* the helpers map after the constructor has run registerDefaultHelpers
InitHelpers ==
  << [k |-> H_date, v |-> Builtin], [k |-> H_uppercase, v |-> Builtin],
     [k |-> H_lowercase, v |-> Builtin], [k |-> H_capitalize, v |-> Builtin],
     [k |-> H_join, v |-> Builtin], [k |-> H_default, v |-> Builtin],
     [k |-> H_length, v |-> Builtin], [k |-> H_truncate, v |-> Builtin],
     [k |-> H_slug, v |-> Builtin] >>

\* helper(args, variables) for the helper registered under name
ApplyHelper(helper, name, args, clock) ==
  IF helper.t = "const" THEN Str(helper.s)
  ELSE CASE name = H_date -> HelperDate(args, clock)
         [] name = H_uppercase -> HelperUppercase(args)
         [] name = H_lowercase -> HelperLowercase(args)
         [] name = H_capitalize -> HelperCapitalize(args)
         [] name = H_join -> HelperJoin(args)
         [] name = H_default -> HelperDefault(args)
         [] name = H_length -> HelperLength(args)
         [] name = H_truncate -> HelperTruncate(args)
         [] name = H_slug -> HelperSlug(args)

(***************************************************************************)
(* interpolate, pass 1: text.replace(/\{\{(\w+)\}\}/g, ...)                *)
(***************************************************************************)
\* the pattern at index i: whether it matches, the captured name, the index
\* after the match
VarRefAt(s, i) ==
  IF ~MatchAt(s, i, LB) THEN [ok |-> FALSE, name |-> <<>>, next |-> 0]
  ELSE LET e == RunEnd(s, i + 2, WordCh) IN
       [ok |-> e > i + 2 /\ MatchAt(s, e, RB), name |-> SubSeq(s, i + 2, e - 1),
        next |-> e + 2]

\* the callback: the reference is kept when variables[name] is undefined; a
\* value String cannot convert leaves the mark of the exception, and the first
\* mark of a text is the exception that ended the call
VarRefValue(name, variables) ==
  LET value == Lookup(variables, name) IN
  IF value = Undef THEN LB \o name \o RB ELSE ToStr(value)

RECURSIVE SubstituteVars(_, _, _)
\* the replacement of every match from index i on, left to right; replaced
\* text is not scanned again
SubstituteVars(s, i, variables) ==
  LET p == FirstOf({j \in i..Len(s) : VarRefAt(s, j).ok}) IN
  IF p = 0 THEN SubSeq(s, i, Len(s))
  ELSE SubSeq(s, i, p - 1) \o VarRefValue(VarRefAt(s, p).name, variables)
         \o SubstituteVars(s, VarRefAt(s, p).next, variables)

(***************************************************************************)
(* interpolate, pass 2: processConditionalBlocks                           *)
(***************************************************************************)
\* the opening tag from index a, after open: the white space ends before
\* index b and the name before index e
HeadNamed(s, a, b, e) ==
  [ok |-> b > a /\ e > b /\ MatchAt(s, e, RB),
   name |-> SubSeq(s, b, e - 1), body |-> e + 2]

HeadSpaced(s, a, b) == HeadNamed(s, a, b, RunEnd(s, b, WordCh))

\* the opening tag  open \s+ (\w+) \}\}  at index i: whether it matches, the
\* captured name and the index after the tag
BlockHead(s, i, open) ==
  IF ~MatchAt(s, i, open) THEN [ok |-> FALSE, name |-> <<>>, body |-> 0]
  ELSE HeadSpaced(s, i + Len(open), RunEnd(s, i + Len(open), SpaceCh))

\* value !== undefined && value !== null && value !== false && value !== ''
IsTruthy(value) ==
  value # Undef /\ value # Null /\ value # Bool(FALSE) /\ value # Str(<<>>)

\* the match of ifElsePattern with the opening tag h, {{else}} at index p and
\* {{/if}} at index q, each 0 when the text has none
IfElseTo(s, h, p, q) ==
  [ok |-> q # 0, name |-> h.name,
   ifContent |-> IF q # 0 THEN SubSeq(s, h.body, p - 1) ELSE <<>>,
   elseContent |-> IF q # 0 THEN SubSeq(s, p + Len(T_else), q - 1) ELSE <<>>,
   next |-> q + Len(T_endif)]

IfElseElse(s, h, p) ==
  IfElseTo(s, h, p, IF p # 0 THEN FindLit(s, p + Len(T_else), T_endif) ELSE 0)

IfElseFrom(s, h) == IfElseElse(s, h, IF h.ok THEN FindLit(s, h.body, T_else) ELSE 0)

\* ifElsePattern at index i: the lazy groups end at the first {{else}} after
\* the tag and at the first {{/if}} after that {{else}}
IfElseAt(s, i) == IfElseFrom(s, BlockHead(s, i, T_if))

\* text.replace(ifElsePattern, ...) from index i on
RECURSIVE ReplaceIfElse(_, _, _)
\* the replacement of the match m at index p, and of the matches after it
ReplaceIfElseMatch(s, i, variables, p, m) ==
  SubSeq(s, i, p - 1)
    \o (IF IsTruthy(Lookup(variables, m.name)) THEN m.ifContent ELSE m.elseContent)
    \o ReplaceIfElse(s, m.next, variables)

\* p is the index of the first match from index i on, 0 when there is none
ReplaceIfElseAt(s, i, variables, p) ==
  IF p = 0 THEN SubSeq(s, i, Len(s))
  ELSE ReplaceIfElseMatch(s, i, variables, p, IfElseAt(s, p))

ReplaceIfElse(s, i, variables) ==
  ReplaceIfElseAt(s, i, variables, FirstOf({j \in i..Len(s) : IfElseAt(s, j).ok}))

\* the match with the opening tag h and close at index q, 0 when the text has
\* none
BlockTo(s, h, q, close) ==
  [ok |-> q # 0, name |-> h.name,
   content |-> IF q # 0 THEN SubSeq(s, h.body, q - 1) ELSE <<>>,
   next |-> q + Len(close)]

BlockFrom(s, h, close) == BlockTo(s, h, IF h.ok THEN FindLit(s, h.body, close) ELSE 0, close)

\* ifPattern, unlessPattern and eachPattern at index i:  open name }} body close,
\* the lazy body ends at the first close after the tag
BlockAt(s, i, open, close) == BlockFrom(s, BlockHead(s, i, open), close)

\* result.replace(ifPattern, ...) and result.replace(unlessPattern, ...) from
\* index i on; keepWhenTruthy tells which truthiness keeps the body
RECURSIVE ReplaceBlock(_, _, _, _, _, _)
\* the replacement of the match m at index p, and of the matches after it
ReplaceBlockMatch(s, i, variables, open, close, keepWhenTruthy, p, m) ==
  SubSeq(s, i, p - 1)
    \o (IF IsTruthy(Lookup(variables, m.name)) = keepWhenTruthy THEN m.content ELSE <<>>)
    \o ReplaceBlock(s, m.next, variables, open, close, keepWhenTruthy)

\* p is the index of the first match from index i on, 0 when there is none
ReplaceBlockAt(s, i, variables, open, close, keepWhenTruthy, p) ==
  IF p = 0 THEN SubSeq(s, i, Len(s))
  ELSE ReplaceBlockMatch(s, i, variables, open, close, keepWhenTruthy, p,
                         BlockAt(s, p, open, close))

ReplaceBlock(s, i, variables, open, close, keepWhenTruthy) ==
  ReplaceBlockAt(s, i, variables, open, close, keepWhenTruthy,
                 FirstOf({j \in i..Len(s) : BlockAt(s, j, open, close).ok}))

\* if-else first, then the simple if, then unless
processConditionalBlocks(text, variables) ==
  ReplaceBlock(
    ReplaceBlock(ReplaceIfElse(text, 1, variables), 1, variables, T_if, T_endif, TRUE),
    1, variables, T_unless, T_endunless, FALSE)

(***************************************************************************)
(* new RegExp(source, 'g') and text.replace(regexp, replacement) for the   *)
(* patterns the loop pass builds from the keys of an element.  A pattern   *)
(* is parsed as JavaScript parses it without the u flag: alternatives,     *)
(* groups, the quantifiers * + ? {n} {n,} {n,m} and their lazy forms, the  *)
(* dot, character classes with ranges, the escapes \d \D \w \W \s \S \n \t *)
(* \r \b \B, identity escapes, ^ and $.  Outside the model: lookahead and  *)
(* lookbehind, named groups, back references and the escapes \0 to \9, \c, *)
(* \f, \k, \u, \v, \x, [\b], and ranges whose ends are no printable ASCII  *)
(* characters; RegExpOutside marks a text computed from such a pattern.    *)
(***************************************************************************)
\* the mark of the SyntaxError new RegExp throws on a source that is no
\* pattern
RegExpErrorMark == "SyntaxError: Invalid regular expression"

RegExpOutside == "a regular expression outside the model"

\* the printable ASCII characters in the order of their codes, from 32 on; the
\* grave accent, which no text of the model holds, keeps its place as "U+0060"
AsciiSeq ==
  <<" ","!","\"","#","$","%","&","'","(",")","*","+",",","-",".","/",
    "0","1","2","3","4","5","6","7","8","9",":",";","<","=",">","?","@",
    "A","B","C","D","E","F","G","H","I","J","K","L","M",
    "N","O","P","Q","R","S","T","U","V","W","X","Y","Z",
    "[","\\","]","^","_","U+0060",
    "a","b","c","d","e","f","g","h","i","j","k","l","m",
    "n","o","p","q","r","s","t","u","v","w","x","y","z",
    "{","|","}","~">>

\* the code of a printable ASCII character, 0 for any other character
CodeOf(c) ==
  IF \E i \in 1..Len(AsciiSeq) : AsciiSeq[i] = c THEN 31 + IndexIn(AsciiSeq, c) ELSE 0

\* the character of the source at index i, the empty string past its end
At(src, i) == IF i \in 1..Len(src) THEN src[i] ELSE ""

PatternError == [ok |-> FALSE, error |-> "SyntaxError"]

PatternOutside == [ok |-> FALSE, error |-> "outside"]

\* {n}, {n,} or {n,m} at index i, where the source has a brace: max = -1 stands
\* for no upper bound
NotBraced == [valid |-> FALSE]

\* the braces from the comma at index d1 to the end d2 of the digits after it
BracedTo(src, i, d1, d2) ==
  IF At(src, d2) # "}" THEN NotBraced
  ELSE [valid |-> TRUE, min |-> DigitsVal(SubSeq(src, i + 1, d1 - 1), 0),
        max |-> IF d2 = d1 + 1 THEN 0 - 1 ELSE DigitsVal(SubSeq(src, d1 + 1, d2 - 1), 0),
        next |-> d2 + 1]

\* the braces from the end d1 of the digits after the opening brace
BracedFrom(src, i, d1) ==
  IF d1 = i + 1 THEN NotBraced
  ELSE IF At(src, d1) = "}"
  THEN [valid |-> TRUE, min |-> DigitsVal(SubSeq(src, i + 1, d1 - 1), 0),
        max |-> DigitsVal(SubSeq(src, i + 1, d1 - 1), 0), next |-> d1 + 1]
  ELSE IF At(src, d1) = ","
  THEN BracedTo(src, i, d1, RunEnd(src, d1 + 1, Digit))
  ELSE NotBraced

BracedAt(src, i) == BracedFrom(src, i, RunEnd(src, i + 1, Digit))

\* a quantifier starts at index i
QuantifierStarts(src, i) ==
  \/ At(src, i) \in {"*", "+", "?"}
  \/ At(src, i) = "{" /\ BracedAt(src, i).valid

\* the quantifier at index i without its lazy mark
BareQuantifier(src, i) ==
  CASE At(src, i) = "*" -> [min |-> 0, max |-> 0 - 1, next |-> i + 1]
    [] At(src, i) = "+" -> [min |-> 1, max |-> 0 - 1, next |-> i + 1]
    [] At(src, i) = "?" -> [min |-> 0, max |-> 1, next |-> i + 1]
    [] OTHER -> BracedAt(src, i)

\* the atom under the quantifier q, which a question mark makes lazy; a
\* quantifier whose bounds are out of order is an error
QuantifiedBy(src, atom, q) ==
  IF q.max # 0 - 1 /\ q.max < q.min THEN PatternError
  ELSE [ok |-> TRUE,
        node |-> [t |-> "rep", node |-> atom.node, min |-> q.min, max |-> q.max,
                  greedy |-> At(src, q.next) # "?"],
        next |-> IF At(src, q.next) = "?" THEN q.next + 1 ELSE q.next]

\* the atom parsed, with the quantifier that follows it, if any
Quantified(src, atom) ==
  IF ~QuantifierStarts(src, atom.next) THEN atom
  ELSE QuantifiedBy(src, atom, BareQuantifier(src, atom.next))

\* a class of characters: the characters of chars when inside, every other
\* character when not
ClassNode(inside, chars) ==
  [t |-> "class", neg |-> FALSE, items |-> << [k |-> "set", inside |-> inside, chars |-> chars] >>]

\* the escape \c at index i outside a character class
EscapeOf(c, i) ==
  CASE c = "" -> PatternError
    [] c = "b" -> [ok |-> TRUE, node |-> [t |-> "wordEdge", neg |-> FALSE], next |-> i + 2]
    [] c = "B" -> [ok |-> TRUE, node |-> [t |-> "wordEdge", neg |-> TRUE], next |-> i + 2]
    [] c = "d" -> [ok |-> TRUE, node |-> ClassNode(TRUE, Digit), next |-> i + 2]
    [] c = "D" -> [ok |-> TRUE, node |-> ClassNode(FALSE, Digit), next |-> i + 2]
    [] c = "w" -> [ok |-> TRUE, node |-> ClassNode(TRUE, WordCh), next |-> i + 2]
    [] c = "W" -> [ok |-> TRUE, node |-> ClassNode(FALSE, WordCh), next |-> i + 2]
    [] c = "s" -> [ok |-> TRUE, node |-> ClassNode(TRUE, SpaceCh), next |-> i + 2]
    [] c = "S" -> [ok |-> TRUE, node |-> ClassNode(FALSE, SpaceCh), next |-> i + 2]
    [] c = "n" -> [ok |-> TRUE, node |-> [t |-> "char", c |-> "\n"], next |-> i + 2]
    [] c = "t" -> [ok |-> TRUE, node |-> [t |-> "char", c |-> "\t"], next |-> i + 2]
    [] c = "r" -> [ok |-> TRUE, node |-> [t |-> "char", c |-> "\r"], next |-> i + 2]
    [] c \in Digit \cup {"c", "f", "k", "u", "v", "x"} -> PatternOutside
    [] OTHER -> [ok |-> TRUE, node |-> [t |-> "char", c |-> c], next |-> i + 2]

\* the escape at index i, where the source has a backslash, outside a
\* character class
EscapeAt(src, i) == EscapeOf(At(src, i + 1), i)

\* the escape \e at index i inside a character class
ClassEscapeOf(e, i) ==
  CASE e = "" -> PatternError
    [] e = "d" -> [ok |-> TRUE, single |-> FALSE, inside |-> TRUE, chars |-> Digit, next |-> i + 2]
    [] e = "D" -> [ok |-> TRUE, single |-> FALSE, inside |-> FALSE, chars |-> Digit, next |-> i + 2]
    [] e = "w" -> [ok |-> TRUE, single |-> FALSE, inside |-> TRUE, chars |-> WordCh, next |-> i + 2]
    [] e = "W" -> [ok |-> TRUE, single |-> FALSE, inside |-> FALSE, chars |-> WordCh, next |-> i + 2]
    [] e = "s" -> [ok |-> TRUE, single |-> FALSE, inside |-> TRUE, chars |-> SpaceCh, next |-> i + 2]
    [] e = "S" -> [ok |-> TRUE, single |-> FALSE, inside |-> FALSE, chars |-> SpaceCh, next |-> i + 2]
    [] e = "n" -> [ok |-> TRUE, single |-> TRUE, c |-> "\n", next |-> i + 2]
    [] e = "t" -> [ok |-> TRUE, single |-> TRUE, c |-> "\t", next |-> i + 2]
    [] e = "r" -> [ok |-> TRUE, single |-> TRUE, c |-> "\r", next |-> i + 2]
    [] e \in Digit \cup {"b", "c", "f", "k", "u", "v", "x"} -> PatternOutside
    [] OTHER -> [ok |-> TRUE, single |-> TRUE, c |-> e, next |-> i + 2]

\* one member of a character class at index i: a character, or the set of an
\* escape
ClassAtomAt(src, i) ==
  IF At(src, i) # "\\" THEN [ok |-> TRUE, single |-> TRUE, c |-> At(src, i), next |-> i + 1]
  ELSE ClassEscapeOf(At(src, i + 1), i)

\* a member of a class as an item of the class node
ClassItem(a) ==
  IF a.single THEN [k |-> "set", inside |-> TRUE, chars |-> {a.c}]
  ELSE [k |-> "set", inside |-> a.inside, chars |-> a.chars]

\* the items parsed, before the items that follow them: rest is what the
\* parse of those gave
ItemsWith(items, rest) ==
  IF ~rest.ok THEN rest
  ELSE [ok |-> TRUE, items |-> items \o rest.items, next |-> rest.next]

RECURSIVE ClassItemsAt(_, _)
\* the members of a class from the member a, a hyphen and the member b on: a
\* range when both are characters, the three members otherwise
ItemsAfterRange(src, a, b) ==
  IF ~b.ok THEN b
  ELSE IF ~a.single \/ ~b.single
  THEN ItemsWith(<< ClassItem(a), [k |-> "set", inside |-> TRUE, chars |-> {"-"}],
                    ClassItem(b) >>,
                 ClassItemsAt(src, b.next))
  ELSE IF CodeOf(a.c) = 0 \/ CodeOf(b.c) = 0 THEN PatternOutside
  ELSE IF CodeOf(a.c) > CodeOf(b.c) THEN PatternError
  ELSE ItemsWith(<< [k |-> "range", lo |-> CodeOf(a.c), hi |-> CodeOf(b.c)] >>,
                 ClassItemsAt(src, b.next))

\* the members of a class from the member a on
ItemsAfterAtom(src, a) ==
  IF ~a.ok THEN a
  ELSE IF At(src, a.next) = "-" /\ At(src, a.next + 1) \notin {"]", ""}
  THEN ItemsAfterRange(src, a, ClassAtomAt(src, a.next + 1))
  ELSE ItemsWith(<<ClassItem(a)>>, ClassItemsAt(src, a.next))

\* the members of a character class from index i to its closing bracket
ClassItemsAt(src, i) ==
  IF i > Len(src) THEN PatternError
  ELSE IF src[i] = "]" THEN [ok |-> TRUE, items |-> <<>>, next |-> i + 1]
  ELSE ItemsAfterAtom(src, ClassAtomAt(src, i))

\* the class whose members r are parsed
ClassOf(neg, r) ==
  IF ~r.ok THEN r
  ELSE [ok |-> TRUE, node |-> [t |-> "class", neg |-> neg, items |-> r.items],
        next |-> r.next]

\* the character class at index i, where the source has an opening bracket
ClassAt(src, i) ==
  ClassOf(At(src, i + 1) = "^",
          ClassItemsAt(src, IF At(src, i + 1) = "^" THEN i + 2 ELSE i + 1))

RECURSIVE ParseDisjunction(_, _)
RECURSIVE ParseAlternative(_, _)
\* the group whose alternatives d are parsed: a closing parenthesis follows
GroupOf(src, d) ==
  IF ~d.ok THEN d
  ELSE IF At(src, d.next) # ")" THEN PatternError
  ELSE [ok |-> TRUE, node |-> d.node, next |-> d.next + 1]

\* the group at index i, where the source has an opening parenthesis
GroupAt(src, i) ==
  IF At(src, i + 1) = "?" /\ At(src, i + 2) \in {"=", "!", "<"} THEN PatternOutside
  ELSE IF At(src, i + 1) = "?" /\ At(src, i + 2) # ":" THEN PatternError
  ELSE GroupOf(src, ParseDisjunction(src, IF At(src, i + 1) = "?" THEN i + 3 ELSE i + 1))

\* the atom at index i
AtomAt(src, i) ==
  CASE src[i] = "(" -> GroupAt(src, i)
    [] src[i] = "[" -> ClassAt(src, i)
    [] src[i] = "\\" -> EscapeAt(src, i)
    [] src[i] = "." ->
         [ok |-> TRUE, node |-> ClassNode(FALSE, {"\n", "\r"}), next |-> i + 1]
    [] OTHER -> [ok |-> TRUE, node |-> [t |-> "char", c |-> src[i]], next |-> i + 1]

\* the term of the atom a: the atom with its quantifier; a quantifier after
\* an assertion is an error
TermOf(src, a) ==
  IF ~a.ok THEN a
  ELSE IF a.node.t = "wordEdge"
  THEN (IF QuantifierStarts(src, a.next) THEN PatternError ELSE a)
  ELSE Quantified(src, a)

\* the term at index i: an assertion, or an atom with its quantifier; a
\* quantifier with nothing before it is an error
TermAt(src, i) ==
  IF QuantifierStarts(src, i) THEN PatternError
  ELSE IF src[i] \in {"^", "$"}
  THEN (IF QuantifierStarts(src, i + 1) THEN PatternError
        ELSE [ok |-> TRUE, node |-> [t |-> IF src[i] = "^" THEN "start" ELSE "end"],
              next |-> i + 1])
  ELSE TermOf(src, AtomAt(src, i))

\* the terms from the term t on
AlternativeFrom(src, t) ==
  IF ~t.ok THEN t
  ELSE ItemsWith(<<t.node>>, ParseAlternative(src, t.next))

\* the terms from index i to the next bar, closing parenthesis or the end
ParseAlternative(src, i) ==
  IF i > Len(src) \/ src[i] \in {"|", ")"} THEN [ok |-> TRUE, items |-> <<>>, next |-> i]
  ELSE AlternativeFrom(src, TermAt(src, i))

\* the alternative whose terms are items, before the alternatives that follow
\* it: rest is what the parse of those gave
DisjunctionWith(items, rest) ==
  IF ~rest.ok THEN rest
  ELSE [ok |-> TRUE, node |-> [t |-> "alt", items |-> << items >> \o rest.node.items],
        next |-> rest.next]

\* the alternatives from the alternative a on
DisjunctionFrom(src, a) ==
  IF ~a.ok THEN a
  ELSE IF At(src, a.next) # "|"
  THEN [ok |-> TRUE, node |-> [t |-> "alt", items |-> << a.items >>], next |-> a.next]
  ELSE DisjunctionWith(a.items, ParseDisjunction(src, a.next + 1))

\* the alternatives from index i to the closing parenthesis or the end
ParseDisjunction(src, i) == DisjunctionFrom(src, ParseAlternative(src, i))

\* the pattern whose alternatives d are parsed: a closing parenthesis that
\* closes nothing is an error
PatternOf(src, d) ==
  IF ~d.ok THEN d
  ELSE IF d.next <= Len(src) THEN PatternError
  ELSE d

\* new RegExp(source): the pattern, or the error
ParsePattern(src) == PatternOf(src, ParseDisjunction(src, 1))

\* a sequence without the later occurrences of its elements
RECURSIVE Dedup(_)
Dedup(seq) ==
  IF seq = <<>> THEN <<>>
  ELSE <<Head(seq)>> \o Dedup(SelectSeq(Tail(seq), LAMBDA x : x # Head(seq)))

\* the character c is one the class node takes
InClass(node, c) ==
  (\E j \in 1..Len(node.items) :
     IF node.items[j].k = "range"
     THEN CodeOf(c) # 0 /\ node.items[j].lo <= CodeOf(c) /\ CodeOf(c) <= node.items[j].hi
     ELSE (c \in node.items[j].chars) = node.items[j].inside)
    # node.neg

\* the position i of the text lies between a word character and a character
\* that is none, or the end of the text
AtWordEdge(s, i) == (At(s, i - 1) \in WordCh) # (At(s, i) \in WordCh)

\* the backtracking matcher: the indices after the matches of a node that
\* start at index i of the text, in the order the matcher tries them
RECURSIVE Ends(_, _, _)
RECURSIVE EndsOfTerms(_, _, _, _)
RECURSIVE EndsOfAlternatives(_, _, _, _)
RECURSIVE EndsOfRepeat(_, _, _, _, _, _)
RECURSIVE EndsFromEach(_, _, _, _, _)
RECURSIVE RepeatFromEach(_, _, _, _, _, _, _, _)
\* the terms from term k on, started at each index of starts in turn
EndsFromEach(starts, j, items, k, s) ==
  IF j > Len(starts) THEN <<>>
  ELSE EndsOfTerms(items, k, s, starts[j]) \o EndsFromEach(starts, j + 1, items, k, s)

EndsOfTerms(items, k, s, i) ==
  IF k > Len(items) THEN <<i>>
  ELSE Dedup(EndsFromEach(Ends(items[k], s, i), 1, items, k + 1, s))

EndsOfAlternatives(alts, k, s, i) ==
  IF k > Len(alts) THEN <<>>
  ELSE EndsOfTerms(alts[k], 1, s, i) \o EndsOfAlternatives(alts, k + 1, s, i)

\* the further iterations started at each index of starts in turn; an
\* iteration that matched the empty text is given up once min is reached
RepeatFromEach(starts, j, node, min, max, greedy, s, i) ==
  IF j > Len(starts) THEN <<>>
  ELSE (IF min = 0 /\ starts[j] = i THEN <<>>
        ELSE EndsOfRepeat(node, IF min = 0 THEN 0 ELSE min - 1,
                          IF max = 0 - 1 THEN max ELSE max - 1, greedy, s, starts[j]))
         \o RepeatFromEach(starts, j + 1, node, min, max, greedy, s, i)

EndsOfRepeat(node, min, max, greedy, s, i) ==
  IF max = 0 THEN <<i>>
  ELSE LET more == RepeatFromEach(Ends(node, s, i), 1, node, min, max, greedy, s, i) IN
       IF min > 0 THEN Dedup(more)
       ELSE IF greedy THEN Dedup(more \o <<i>>)
       ELSE Dedup(<<i>> \o more)

Ends(node, s, i) ==
  CASE node.t = "char" -> IF At(s, i) = node.c THEN <<i + 1>> ELSE <<>>
    [] node.t = "class" -> IF i <= Len(s) /\ InClass(node, s[i]) THEN <<i + 1>> ELSE <<>>
    [] node.t = "start" -> IF i = 1 THEN <<i>> ELSE <<>>
    [] node.t = "end" -> IF i = Len(s) + 1 THEN <<i>> ELSE <<>>
    [] node.t = "wordEdge" -> IF AtWordEdge(s, i) # node.neg THEN <<i>> ELSE <<>>
    [] node.t = "alt" -> Dedup(EndsOfAlternatives(node.items, 1, s, i))
    [] node.t = "rep" -> EndsOfRepeat(node.node, node.min, node.max, node.greedy, s, i)

\* s.replace(regexp, rep) for a global regexp, from index i on: every match,
\* from left to right; after an empty match the search goes on one character
\* further
RECURSIVE ReplacePattern(_, _, _, _)
ReplacePattern(s, i, node, rep) ==
  LET p == FirstOf({j \in i..(Len(s) + 1) : Ends(node, s, j) # <<>>}) IN
  IF p = 0 THEN SubSeq(s, i, Len(s))
  ELSE LET e == Ends(node, s, p)[1] IN
       SubSeq(s, i, p - 1) \o rep
         \o (IF e > p THEN ReplacePattern(s, e, node, rep)
             ELSE IF p > Len(s) THEN <<>>
             ELSE <<s[p]>> \o ReplacePattern(s, p + 1, node, rep))

\* the characters that make a source differ from the text it matches
MetaCh == {"\\", "^", "$", ".", "*", "+", "?", "(", ")", "[", "{", "|"}

\* `\\{\\{${key}\\}\\}`
KeySource(key) == <<"\\", "{", "\\", "{">> \o key \o <<"\\", "}", "\\", "}">>

\* the replace by the pattern new RegExp returned, or the mark of the error
\* it threw; String(val), whose text is rep, is evaluated once new RegExp has
\* returned, and the replace once String has
ReplaceParsed(itemContent, pattern, rep) ==
  IF pattern.ok
  THEN (IF rep = Unconvertible THEN rep
        ELSE ReplacePattern(itemContent, 1, pattern.node, rep))
  ELSE IF pattern.error = "SyntaxError" THEN <<RegExpErrorMark>>
  ELSE <<RegExpOutside>>

\* itemContent.replace(new RegExp(`\\{\\{${key}\\}\\}`, 'g'), String(val)): a
\* key without metacharacters matches the text {{key}} only; the call throws
\* when String(val) does, whether or not the pattern has a match
ReplaceKey(itemContent, key, rep) ==
  IF \A j \in 1..Len(key) : key[j] \notin MetaCh
  THEN (IF rep = Unconvertible THEN rep
        ELSE ReplaceAll(itemContent, 1, LB \o key \o RB, rep))
  ELSE ReplaceParsed(itemContent, ParsePattern(KeySource(key)), rep)

(***************************************************************************)
(* interpolate, pass 3: processLoopBlocks                                  *)
(***************************************************************************)
\* Object.entries(item) for an item with typeof item === 'object': the fields
\* of a record, the indices of an array
EntriesOf(item) ==
  IF item.t = "obj" THEN item.o
  ELSE IF item.t = "arr"
  THEN [i \in 1..Len(item.a) |-> [k |-> NatStr(i - 1), v |-> item.a[i]]]
  ELSE <<>>

\* for (const [key, val] of entries) itemContent = itemContent.replace(...): the
\* loop ends at the first key whose pattern new RegExp rejects and at the first
\* value String cannot convert
RECURSIVE ReplaceFields(_, _, _)
\* the loop after the field j: replaced is what the replace of the field gave
ReplaceNext(replaced, entries, j) ==
  IF replaced \in {<<RegExpErrorMark>>, <<RegExpOutside>>, Unconvertible} THEN replaced
  ELSE ReplaceFields(replaced, entries, j + 1)

ReplaceFields(itemContent, entries, j) ==
  IF j > Len(entries) THEN itemContent
  ELSE ReplaceNext(ReplaceKey(itemContent, entries[j].k, ToStr(entries[j].v)), entries, j)

\* the callback of value.map once String(item) is evaluated, which it is
\* whether or not the body has {{this}}: the body rendered for one element,
\* or the mark of the exception thrown
LoopItemWith(content, item, index, n, this) ==
  IF this = Unconvertible THEN this
  ELSE ReplaceFields(
         ReplaceAll(
           ReplaceAll(
             ReplaceAll(ReplaceAll(content, 1, T_this, this), 1, T_index, NatStr(index)),
             1, T_first, ToStr(Bool(index = 0))),
           1, T_last, ToStr(Bool(index = n - 1))),
         EntriesOf(item), 1)

\* the callback of value.map
LoopItem(content, item, index, n) == LoopItemWith(content, item, index, n, ToStr(item))

\* the callback of text.replace(eachPattern, ...): an element whose callback
\* throws leaves its mark, and the first mark of a text is the exception that
\* ended the call
LoopBody(value, content) ==
  IF value.t # "arr" THEN <<>>
  ELSE JoinText([k \in 1..Len(value.a) |->
                   LoopItem(content, value.a[k], k - 1, Len(value.a))], <<>>)

RECURSIVE processLoopBlocksFrom(_, _, _)
\* the replacement of the match m at index p, and of the matches after it
LoopBlockMatch(s, i, variables, p, m) ==
  SubSeq(s, i, p - 1) \o LoopBody(Lookup(variables, m.name), m.content)
    \o processLoopBlocksFrom(s, m.next, variables)

\* p is the index of the first match from index i on, 0 when there is none
LoopBlockAt(s, i, variables, p) ==
  IF p = 0 THEN SubSeq(s, i, Len(s))
  ELSE LoopBlockMatch(s, i, variables, p, BlockAt(s, p, T_each, T_endeach))

\* text.replace(eachPattern, ...) from index i on
processLoopBlocksFrom(s, i, variables) ==
  LoopBlockAt(s, i, variables,
              FirstOf({j \in i..Len(s) : BlockAt(s, j, T_each, T_endeach).ok}))

processLoopBlocks(text, variables) == processLoopBlocksFrom(text, 1, variables)

RegExpMarks == {RegExpErrorMark, RegExpOutside}

\* the TypeError of text.replace when the title or the content of a section is
\* undefined
UndefinedTextMark == "TypeError: Cannot read properties of undefined (reading 'replace')"

\* the marks of the exceptions thrown while a text is computed
ThrowMarks == {TypeErrorMark, UndefinedTextMark, PrimitiveErrorMark} \cup RegExpMarks

\* the text holds the mark of an exception thrown while it was computed
Threw(text) == \E i \in 1..Len(text) : text[i] \in ThrowMarks

\* the mark of the first exception thrown while the text was computed
FirstThrown(text) == text[FirstOf({i \in 1..Len(text) : text[i] \in ThrowMarks})]

(***************************************************************************)
(* interpolate, pass 4: processHelperCalls                                 *)
(***************************************************************************)
\* argsString.split(/\s+/), the tokens from index i on
RECURSIVE SplitWS(_, _)
SplitWS(s, i) ==
  LET e == FindClass(s, i, SpaceCh) IN
  IF e > Len(s) THEN <<SubSeq(s, i, Len(s))>>
  ELSE <<SubSeq(s, i, e - 1)>> \o SplitWS(s, RunEnd(s, e, SpaceCh))

StartsWith(s, c) == Len(s) >= 1 /\ s[1] = c

EndsWith(s, c) == Len(s) >= 1 /\ s[Len(s)] = c

\* the callback of argsString.split(/\s+/).map: one argument token resolved
ResolveArg(arg, variables) ==
  IF Lookup(variables, arg) # Undef THEN Lookup(variables, arg)
  ELSE IF StartsWith(arg, "\"") /\ EndsWith(arg, "\"") THEN Str(SubSeq(arg, 2, Len(arg) - 1))
  ELSE IF StartsWith(arg, "'") /\ EndsWith(arg, "'") THEN Str(SubSeq(arg, 2, Len(arg) - 1))
  ELSE IF ~IsNaN(StrToNum(arg)) THEN StrToNum(arg)
  ELSE Str(arg)

ParseArgs(argsString, variables) ==
  IF argsString = <<>> THEN <<>>
  ELSE LET toks == SplitWS(argsString, 1) IN
       [j \in 1..Len(toks) |-> ResolveArg(toks[j], variables)]

\* the match whose name ends before index e, the white space after it before
\* index w and the arguments before index c; \s+ gives its last character back
\* to [^}]+ when nothing else is left, so that the arguments start at index a
HelperArgs(s, i, e, w, c, a) ==
  IF e = i + 2 THEN [ok |-> FALSE, name |-> <<>>, args |-> <<>>, next |-> 0]
  ELSE IF w = e
  THEN [ok |-> MatchAt(s, e, RB), name |-> SubSeq(s, i + 2, e - 1),
        args |-> <<>>, next |-> e + 2]
  ELSE [ok |-> a > e /\ MatchAt(s, c, RB), name |-> SubSeq(s, i + 2, e - 1),
        args |-> SubSeq(s, a, c - 1), next |-> c + 2]

HelperClosed(s, i, e, w, c) == HelperArgs(s, i, e, w, c, IF c > w THEN w ELSE w - 1)

HelperSpaced(s, i, e, w) == HelperClosed(s, i, e, w, FindClass(s, w, {"}"}))

HelperNamed(s, i, e) == HelperSpaced(s, i, e, RunEnd(s, e, SpaceCh))

\* helperPattern /\{\{(\w+)(?:\s+([^}]+))?\}\}/ at index i: whether it matches,
\* the helper name, the argument string (empty when the group did not take
\* part) and the index after the match
HelperMatch(s, i) ==
  IF ~MatchAt(s, i, LB) THEN [ok |-> FALSE, name |-> <<>>, args |-> <<>>, next |-> 0]
  ELSE HelperNamed(s, i, RunEnd(s, i + 2, WordCh))

\* the callback of text.replace(helperPattern, ...)
HelperCall(match, name, argsString, variables, hs, clock) ==
  IF MapGet(hs, name) = Undef THEN match
  ELSE ToStr(ApplyHelper(MapGet(hs, name), name, ParseArgs(argsString, variables), clock))

\* the helper registered under name is the built-in date helper, which reads
\* the clock
ReadsClock(name, hs) == name = H_date /\ MapGet(hs, name) = Builtin

RECURSIVE processHelperCallsFrom(_, _, _, _, _)
\* the replacement of the match m at index p, and of the matches after it
HelperCallMatch(s, i, variables, hs, clock, p, m) ==
  SubSeq(s, i, p - 1)
    \o HelperCall(SubSeq(s, p, m.next - 1), m.name, m.args, variables, hs, clock)
    \o processHelperCallsFrom(s, m.next, variables, hs,
                              IF ReadsClock(m.name, hs) THEN After(clock, 1) ELSE clock)

\* p is the index of the first match from index i on, 0 when there is none
HelperCallAt(s, i, variables, hs, clock, p) ==
  IF p = 0 THEN SubSeq(s, i, Len(s))
  ELSE HelperCallMatch(s, i, variables, hs, clock, p, HelperMatch(s, p))

\* text.replace(helperPattern, ...) from index i on
processHelperCallsFrom(s, i, variables, hs, clock) ==
  HelperCallAt(s, i, variables, hs, clock,
               FirstOf({j \in i..Len(s) : HelperMatch(s, j).ok}))

\* What a computation did to the clock: the number of readings it took, and
\* whether it threw, after which it takes no other
NoReadings == [n |-> 0, threw |-> FALSE]

\* a computation and the one that follows it when it does not throw
Then(a, b) == IF a.threw THEN a ELSE [n |-> a.n + b.n, threw |-> b.threw]

\* the readings of processHelperCalls from index i: one for each call of the
\* date helper, up to the call that throws
RECURSIVE HelperReadings(_, _, _, _)
\* the readings of the call m: the date helper takes one; the call throws
\* when the helper does (the date helper on a format that is no string, the
\* others on an argument they cannot convert) and when String cannot convert
\* what the helper returned, whatever the clock shows
CallReadings(m, variables, hs) ==
  [n |-> IF ReadsClock(m.name, hs) THEN 1 ELSE 0,
   threw |-> Threw(HelperCall(<<>>, m.name, m.args, variables, hs, Steady(0)))]

\* the readings of the match m, and of the matches after it
ReadingsFrom(s, variables, hs, m) ==
  Then(CallReadings(m, variables, hs), HelperReadings(s, m.next, variables, hs))

\* p is the index of the first match from index i on, 0 when there is none
ReadingsAt(s, variables, hs, p) ==
  IF p = 0 THEN NoReadings ELSE ReadingsFrom(s, variables, hs, HelperMatch(s, p))

HelperReadings(s, i, variables, hs) ==
  ReadingsAt(s, variables, hs, FirstOf({j \in i..Len(s) : HelperMatch(s, j).ok}))

processHelperCalls(text, variables, hs, clock) ==
  processHelperCallsFrom(text, 1, variables, hs, clock)

(***************************************************************************)
(* interpolate                                                             *)
(***************************************************************************)
\* interpolate running the helper calls before the three other passes
interpolate_HelpersFirst(text, variables, hs, clock) ==
  processLoopBlocks(
    processConditionalBlocks(
      SubstituteVars(processHelperCalls(text, variables, hs, clock), 1, variables),
      variables),
    variables)

\* the second and the third pass on what the first gave; the exception that
\* String threw in the first has ended the call
AfterSubstitution(substituted, variables) ==
  IF Threw(substituted) THEN <<FirstThrown(substituted)>>
  ELSE processLoopBlocks(processConditionalBlocks(substituted, variables), variables)

\* the first three passes, each on the result of the pass before
BeforeHelpers(text, variables) ==
  AfterSubstitution(SubstituteVars(text, 1, variables), variables)

\* the fourth pass on what the first three gave; the exception that new RegExp
\* or String threw in one of them has ended the call
AfterLoops(before, variables, hs, clock) ==
  IF Threw(before) THEN <<FirstThrown(before)>>
  ELSE processHelperCalls(before, variables, hs, clock)

\* the four passes, each on the result of the pass before
interpolate(text, variables, hs, clock) ==
  AfterLoops(BeforeHelpers(text, variables), variables, hs, clock)

\* the readings of the clock in the fourth pass on what the first three gave
ReadingsAfterLoops(before, variables, hs) ==
  IF Threw(before) THEN [n |-> 0, threw |-> TRUE]
  ELSE HelperReadings(before, 1, variables, hs)

\* the readings of the clock in one call of interpolate
TextReadings(text, variables, hs) ==
  ReadingsAfterLoops(BeforeHelpers(text, variables), variables, hs)

(***************************************************************************)
(* Templates.  A template is a record with meta, variables, sections and,  *)
(* optionally, extends (a text) and prompts.  A variable definition has a  *)
(* name (a text) and optional fields holding values; a section has an id   *)
(* (a text) and optional title and content (texts), order, collapsible and *)
(* prompt (values), condition (a record) and sections (a sequence).  A     *)
(* property whose value is undefined is a field holding Undef when its     *)
(* values are tagged values, and is left out of the record otherwise.      *)
(***************************************************************************)
\* { ...a, ...b }
Spread(a, b) == b @@ a

\* !template.extends
NoExtends(template) == "extends" \notin DOMAIN template \/ template.extends = <<>>

\* a Map whose values carry their own key in the field key: the entries in
\* insertion order.  MapIdx finds the entry of a key, MapSet is Map.set
MapIdx(m, key, k) == FirstOf({i \in 1..Len(m) : m[i][key] = k})

MapSet(m, key, item) ==
  LET i == MapIdx(m, key, item[key]) IN
  IF i = 0 THEN Append(m, item) ELSE [m EXCEPT ![i] = item]

\* for (const v of parent) merged.set(v.name, v)
RECURSIVE SeedMap(_, _, _, _)
SeedMap(merged, items, j, key) ==
  IF j > Len(items) THEN merged
  ELSE SeedMap(MapSet(merged, key, items[j]), items, j + 1, key)

\* OverrideVariables with the child's definition replacing the parent's whole:
\* merged.set(v.name, v)
RECURSIVE OverrideVariables_Replace(_, _, _)
OverrideVariables_Replace(merged, child, j) ==
  IF j > Len(child) THEN merged
  ELSE OverrideVariables_Replace(MapSet(merged, "name", child[j]), child, j + 1)

\* for (const v of child) merged.set(v.name, { ...merged.get(v.name), ...v })
RECURSIVE OverrideVariables(_, _, _)
OverrideVariables(merged, child, j) ==
  IF j > Len(child) THEN merged
  ELSE LET v == child[j]
           i == MapIdx(merged, "name", v.name)
       IN  OverrideVariables(
             MapSet(merged, "name", IF i = 0 THEN v ELSE Spread(merged[i], v)),
             child, j + 1)

mergeVariables(parent, child) ==
  OverrideVariables(SeedMap(<<>>, parent, 1, "name"), child, 1)

\* (a.order || 0) as the subtraction converts it to a number, which throws
\* for an order without primitive value
OrderOf(section) == ToNum(OrElse(Get(section, "order"), Num(0)))

\* a list that holds the mark of an exception in place of its elements stands
\* for the exception thrown while it was computed
ThrownList(mark) == <<Thrown(mark)>>

ListThrew(list) == \E i \in 1..Len(list) : "error" \in DOMAIN list[i]

\* SortByOrder with the sort left out
SortByOrder_None(list) == list

\* the comparator (a, b) => (a.order || 0) - (b.order || 0) as sort reads it:
\* a result that is NaN counts as 0
CompareOrders(orderA, orderB) ==
  IF IsThrown(orderA) THEN orderA
  ELSE IF IsThrown(orderB) THEN orderB
  ELSE IF IsNaN(orderA) \/ IsNaN(orderB) THEN 0
  ELSE orderA.n - orderB.n

CompareOrder(a, b) == CompareOrders(OrderOf(a), OrderOf(b))

\* Array.prototype.sort as V8 runs it on an array of fewer than 64 elements:
\* the run the array starts with is found (and reversed when it descends
\* strictly), then every later element is inserted by binary search.
\* The length of the run list starts with, of at least two elements
RECURSIVE RunLength(_, _, _)
RunLength(list, descending, r) ==
  IF r >= Len(list) \/ (CompareOrder(list[r + 1], list[r]) < 0) # descending THEN r
  ELSE RunLength(list, descending, r + 1)

Reverse(list) == [i \in 1..Len(list) |-> list[Len(list) + 1 - i]]

\* the binary search of the insertion: the number of elements of
\* work[1..start] that stay before pivot
RECURSIVE InsertionPoint(_, _, _, _)
InsertionPoint(work, pivot, left, right) ==
  IF left >= right THEN left
  ELSE LET mid == left + ((right - left) \div 2) IN
       IF CompareOrder(pivot, work[mid + 1]) < 0
       THEN InsertionPoint(work, pivot, left, mid)
       ELSE InsertionPoint(work, pivot, mid + 1, right)

\* the elements after the first start elements inserted one by one
RECURSIVE InsertFrom(_, _)
\* the pivot work[start + 1] moved behind the first left elements
InsertAt(work, start, left) ==
  InsertFrom(SubSeq(work, 1, left) \o <<work[start + 1]>> \o SubSeq(work, left + 1, start)
               \o SubSeq(work, start + 2, Len(work)),
             start + 1)

InsertFrom(work, start) ==
  IF start >= Len(work) THEN work
  ELSE InsertAt(work, start, InsertionPoint(work, work[start + 1], 0, start))

\* the sort of a list whose first r elements are a run, descending or not
SortFrom(list, descending, r) ==
  InsertFrom(IF descending
             THEN Reverse(SubSeq(list, 1, r)) \o SubSeq(list, r + 1, Len(list))
             ELSE list,
             r)

SortRun(list, descending) == SortFrom(list, descending, RunLength(list, descending, 2))

\* Array.prototype.sort((a, b) => (a.order || 0) - (b.order || 0)): stable, and
\* ascending when every order converts to a number other than NaN; an order
\* that converts to NaN compares equal to every other.  A list of fewer than
\* two elements is returned without a call of the comparator; in a longer list
\* every element is compared at least once, so that the sort throws when the
\* conversion of some order does
SortByOrder(list) ==
  IF Len(list) < 2 THEN list
  ELSE IF \E i \in 1..Len(list) : IsThrown(OrderOf(list[i]))
  THEN ThrownList(PrimitiveErrorMark)
  ELSE SortRun(list, CompareOrder(list[2], list[1]) < 0)

\* existing.sections || []
SectionsOrEmpty(section) == IF "sections" \in DOMAIN section THEN section.sections ELSE <<>>

RECURSIVE mergeSections(_, _)
RECURSIVE OverrideSections(_, _, _)
RECURSIVE OverrideSections_ChildNested(_, _, _)
\* OverrideSections with the nested list of the child taken as it is
OverrideSections_ChildNested(merged, child, j) ==
  IF j > Len(child) THEN merged
  ELSE LET s == child[j]
           i == MapIdx(merged, "id", s.id)
           item == IF i = 0 THEN s ELSE Spread(merged[i], s)
       IN  OverrideSections_ChildNested(MapSet(merged, "id", item), child, j + 1)

\* the merge of the nested sections of some section threw
NestedThrew(merged) ==
  \E i \in 1..Len(merged) : "sections" \in DOMAIN merged[i] /\ ListThrew(merged[i].sections)

\* for (const s of child) { const existing = merged.get(s.id); ... }: the loop
\* ends when the merge of nested sections throws
OverrideSections(merged, child, j) ==
  IF j > Len(child) \/ NestedThrew(merged) THEN merged
  ELSE LET s == child[j]
           i == MapIdx(merged, "id", s.id)
           existing == merged[i]
           both == Spread(existing, s)
           item ==
             IF i = 0 THEN s
             ELSE IF "sections" \in DOMAIN s
             THEN [both EXCEPT !.sections = mergeSections(SectionsOrEmpty(existing), s.sections)]
             ELSE IF "sections" \in DOMAIN existing
             THEN [both EXCEPT !.sections = existing.sections]
             ELSE both
       IN  OverrideSections(MapSet(merged, "id", item), child, j + 1)

\* Array.from(merged.values()).sort(...), or the exception the loop threw
SortMerged(merged) ==
  IF NestedThrew(merged) THEN ThrownList(PrimitiveErrorMark) ELSE SortByOrder(merged)

mergeSections(parent, child) ==
  SortMerged(OverrideSections(SeedMap(<<>>, parent, 1, "id"), child, 1))

\* resolvedParent.prompts || []
PromptsOrEmpty(template) == IF "prompts" \in DOMAIN template THEN template.prompts ELSE <<>>

\* the template registered under id in the registry (a Map keyed by meta.id,
\* modelled as the sequence of its values in insertion order)
RegIdx(registry, id) == FirstOf({i \in 1..Len(registry) : registry[i].meta.id = id})

\* the object resolveInheritance returns for a template that extends, sections
\* being what mergeSections returned, or the TypeError its sort threw
MergedChild(sections, resolvedParent, template) ==
  IF ListThrew(sections) THEN [ok |-> FALSE, error |-> "TypeError", name |-> <<>>]
  ELSE [ok |-> TRUE,
        template |->
          [meta |-> Spread(resolvedParent.meta, template.meta),
           variables |-> mergeVariables(resolvedParent.variables, template.variables),
           sections |-> sections,
           prompts |-> PromptsOrEmpty(resolvedParent) \o PromptsOrEmpty(template)]]

\* resolveInheritance.  The recursion follows extends through the registry; a
\* chain longer than the registry revisits a template, and then the recursion
\* of the code never returns normally: fuel counts the calls still allowed,
\* and the result is then the stack overflow.
\* resolveInheritanceFuel merging onto the parent as registered instead of the
\* parent's own resolution
resolveInheritanceFuel_Shallow(template, registry, fuel) ==
  IF NoExtends(template) THEN [ok |-> TRUE, template |-> template]
  ELSE LET i == RegIdx(registry, template.extends) IN
       IF i = 0
       THEN [ok |-> FALSE, error |-> "Parent template not found", name |-> template.extends]
       ELSE MergedChild(mergeSections(registry[i].sections, template.sections),
                        registry[i], template)

\* resolveInheritanceFuel passing a template without extends through the
\* section merge, which sorts its sections
RECURSIVE resolveInheritanceFuel_Sorted(_, _, _)
resolveInheritanceFuel_Sorted(template, registry, fuel) ==
  IF NoExtends(template)
  THEN [ok |-> TRUE,
        template |-> Spread(template, [sections |-> mergeSections(<<>>, template.sections)])]
  ELSE LET i == RegIdx(registry, template.extends) IN
       IF i = 0
       THEN [ok |-> FALSE, error |-> "Parent template not found", name |-> template.extends]
       ELSE IF fuel = 0
       THEN [ok |-> FALSE, error |-> "Maximum call stack size exceeded", name |-> <<>>]
       ELSE LET rp == resolveInheritanceFuel_Sorted(registry[i], registry, fuel - 1) IN
            IF ~rp.ok THEN rp
            ELSE MergedChild(mergeSections(rp.template.sections, template.sections),
                             rp.template, template)

\* resolveInheritanceFuel stopping at the end of its depth with the template as
\* it is, as a resolution that cut cycles would
RECURSIVE resolveInheritanceFuel_CutCycle(_, _, _)
resolveInheritanceFuel_CutCycle(template, registry, fuel) ==
  IF NoExtends(template) THEN [ok |-> TRUE, template |-> template]
  ELSE LET i == RegIdx(registry, template.extends) IN
       IF i = 0
       THEN [ok |-> FALSE, error |-> "Parent template not found", name |-> template.extends]
       ELSE IF fuel = 0
       THEN [ok |-> TRUE, template |-> template]
       ELSE LET rp == resolveInheritanceFuel_CutCycle(registry[i], registry, fuel - 1) IN
            IF ~rp.ok THEN rp
            ELSE MergedChild(mergeSections(rp.template.sections, template.sections),
                             rp.template, template)

RECURSIVE resolveInheritanceFuel(_, _, _)
resolveInheritanceFuel(template, registry, fuel) ==
  IF NoExtends(template) THEN [ok |-> TRUE, template |-> template]
  ELSE LET i == RegIdx(registry, template.extends) IN
       IF i = 0
       THEN [ok |-> FALSE, error |-> "Parent template not found", name |-> template.extends]
       ELSE IF fuel = 0
       THEN [ok |-> FALSE, error |-> "Maximum call stack size exceeded", name |-> <<>>]
       ELSE LET rp == resolveInheritanceFuel(registry[i], registry, fuel - 1) IN
            IF ~rp.ok THEN rp
            ELSE MergedChild(mergeSections(rp.template.sections, template.sections),
                             rp.template, template)

resolveInheritance(template, registry) ==
  resolveInheritanceFuel(template, registry, Len(registry))

\* resolveVariables, first loop: the declared variables from index j on
RECURSIVE ResolveDeclared(_, _, _, _)
ResolveDeclared(resolved, definitions, provided, j) ==
  IF j > Len(definitions) THEN [ok |-> TRUE, variables |-> resolved]
  ELSE LET def == definitions[j] IN
       IF Lookup(provided, def.name) # Undef
       THEN ResolveDeclared(SetKey(resolved, def.name, Lookup(provided, def.name)),
                            definitions, provided, j + 1)
       ELSE IF Get(def, "default") # Undef
       THEN ResolveDeclared(SetKey(resolved, def.name, def.default),
                            definitions, provided, j + 1)
       ELSE IF ~Falsy(Get(def, "required"))
       THEN [ok |-> FALSE, error |-> "Required variable missing", name |-> def.name]
       ELSE ResolveDeclared(resolved, definitions, provided, j + 1)

\* resolveVariables, second loop: the extra provided variables from index j on
RECURSIVE AddExtras(_, _, _)
AddExtras(resolved, provided, j) ==
  IF j > Len(provided) THEN resolved
  ELSE AddExtras(IF Lookup(resolved, provided[j].k) = Undef
                 THEN SetKey(resolved, provided[j].k, provided[j].v)
                 ELSE resolved,
                 provided, j + 1)

resolveVariables(definitions, provided) ==
  LET r == ResolveDeclared(<<>>, definitions, provided, 1) IN
  IF ~r.ok THEN r
  ELSE [ok |-> TRUE, variables |-> AddExtras(r.variables, provided, 1)]

\* a === b: arrays and objects are equal when they are one and the same, NaN
\* is equal to nothing
StrictEq(a, b) ==
  /\ a.t = b.t
  /\ IF a.t \in {"arr", "obj"} THEN SameObject(a, b) ELSE ~IsNaN(a) /\ a = b

\* Array.prototype.includes (SameValueZero): arrays and objects are found
\* when they are one and the same, NaN is found
ArrIncludes(a, x) ==
  \E i \in 1..Len(a) :
    /\ a[i].t = x.t
    /\ IF x.t \in {"arr", "obj"} THEN SameObject(a[i], x) ELSE a[i] = x

\* a > b and a < b on numbers: false when either is NaN
NumGt(a, b) == ~IsNaN(a) /\ ~IsNaN(b) /\ a.n > b.n

NumLt(a, b) == ~IsNaN(a) /\ ~IsNaN(b) /\ a.n < b.n

\* the operators of a condition, as the strings the switch of
\* evaluateCondition compares with ===; matches is none of them
O_equals == Str(<<"e","q","u","a","l","s">>)

O_not_equals == Str(<<"n","o","t","_","e","q","u","a","l","s">>)

O_contains == Str(<<"c","o","n","t","a","i","n","s">>)

O_not_contains == Str(<<"n","o","t","_","c","o","n","t","a","i","n","s">>)

O_greater_than == Str(<<"g","r","e","a","t","e","r","_","t","h","a","n">>)

O_less_than == Str(<<"l","e","s","s","_","t","h","a","n">>)

O_exists == Str(<<"e","x","i","s","t","s">>)

O_not_exists == Str(<<"n","o","t","_","e","x","i","s","t","s">>)

O_matches == Str(<<"m","a","t","c","h","e","s">>)

\* value.includes(String(condition.value)), for the text the conversion gave
IncludesConverted(text, converted) ==
  IF converted = Unconvertible THEN Thrown(PrimitiveErrorMark)
  ELSE Bool(Includes(text, converted))

\* value > Number(condition.value) and value < Number(condition.value), for
\* the number the conversion gave
GreaterConverted(value, number) ==
  IF IsThrown(number) THEN number ELSE Bool(NumGt(value, number))

LessConverted(value, number) ==
  IF IsThrown(number) THEN number ELSE Bool(NumLt(value, number))

\* !x, for what the evaluation of x gave or threw
Not(x) == IF IsThrown(x) THEN x ELSE Bool(~x.b)

\* evaluateCondition with not_contains false for a value that is neither an
\* array nor a string
evaluateCondition_NegatedTypes(condition, variables) ==
  LET value == Lookup(variables, condition.variable)
      cv == Get(condition, "value")
      op == condition.operator
  IN  CASE op = O_equals -> Bool(StrictEq(value, cv))
        [] op = O_not_equals -> Bool(~StrictEq(value, cv))
        [] op = O_contains ->
             IF value.t = "arr" THEN Bool(ArrIncludes(value.a, cv))
             ELSE IF value.t = "str" THEN IncludesConverted(value.s, ToStr(cv))
             ELSE Bool(FALSE)
        [] op = O_not_contains ->
             IF value.t = "arr" THEN Bool(~ArrIncludes(value.a, cv))
             ELSE IF value.t = "str" THEN Not(IncludesConverted(value.s, ToStr(cv)))
             ELSE Bool(FALSE)
        [] op = O_greater_than ->
             IF value.t = "num" THEN GreaterConverted(value, ToNum(cv)) ELSE Bool(FALSE)
        [] op = O_less_than ->
             IF value.t = "num" THEN LessConverted(value, ToNum(cv)) ELSE Bool(FALSE)
        [] op = O_exists -> Bool(value # Undef /\ value # Null /\ value # Str(<<>>))
        [] op = O_not_exists -> Bool(value = Undef \/ value = Null \/ value = Str(<<>>))
        [] OTHER -> Bool(TRUE)

\* evaluateCondition: the boolean it returns, or the exception the conversion
\* of the comparand throws
evaluateCondition(condition, variables) ==
  LET value == Lookup(variables, condition.variable)
      cv == Get(condition, "value")
      op == condition.operator
  IN  CASE op = O_equals -> Bool(StrictEq(value, cv))
        [] op = O_not_equals -> Bool(~StrictEq(value, cv))
        [] op = O_contains ->
             IF value.t = "arr" THEN Bool(ArrIncludes(value.a, cv))
             ELSE IF value.t = "str" THEN IncludesConverted(value.s, ToStr(cv))
             ELSE Bool(FALSE)
        [] op = O_not_contains ->
             IF value.t = "arr" THEN Bool(~ArrIncludes(value.a, cv))
             ELSE IF value.t = "str" THEN Not(IncludesConverted(value.s, ToStr(cv)))
             ELSE Bool(TRUE)
        [] op = O_greater_than ->
             IF value.t = "num" THEN GreaterConverted(value, ToNum(cv)) ELSE Bool(FALSE)
        [] op = O_less_than ->
             IF value.t = "num" THEN LessConverted(value, ToNum(cv)) ELSE Bool(FALSE)
        [] op = O_exists -> Bool(value # Undef /\ value # Null /\ value # Str(<<>>))
        [] op = O_not_exists -> Bool(value = Undef \/ value = Null \/ value = Str(<<>>))
        [] OTHER -> Bool(TRUE)

\* section.condition && !this.evaluateCondition(section.condition, variables)
\* is false: the section is kept.  A section is kept or not, or the
\* evaluation of its condition throws
KeepsSection(section, variables) ==
  IF "condition" \in DOMAIN section
  THEN evaluateCondition(section.condition, variables)
  ELSE Bool(TRUE)

\* this.interpolate(section.title, variables) for a text field f of a section
InterpolateField(section, f, variables, hs, clock) ==
  IF f \in DOMAIN section THEN interpolate(section[f], variables, hs, clock)
  ELSE <<UndefinedTextMark>>

\* the readings of the clock for a text field f of a section
FieldReadings(section, f, variables, hs) ==
  IF f \in DOMAIN section THEN TextReadings(section[f], variables, hs)
  ELSE [n |-> 0, threw |-> TRUE]

\* the readings of the clock for the title and for the content of a section
TextsReadings(section, variables, hs) ==
  [f \in {"title", "content"} |-> FieldReadings(section, f, variables, hs)]

\* the readings of the clock while a list of sections is compiled: the title,
\* the content and the nested sections of each section that is kept, in turn
RECURSIVE SectionsReadings(_, _, _)
\* the readings for a section that is kept: readings are those of its texts
KeptReadings(section, variables, hs, readings) ==
  Then(readings["title"],
       Then(readings["content"],
            IF "sections" \in DOMAIN section
            THEN SectionsReadings(section.sections, variables, hs)
            ELSE NoReadings))

\* the readings for a section, kept being what the test of its condition gave
SectionReadingsOn(section, variables, hs, kept) ==
  IF IsThrown(kept) THEN [n |-> 0, threw |-> TRUE]
  ELSE IF ~kept.b THEN NoReadings
  ELSE KeptReadings(section, variables, hs, TextsReadings(section, variables, hs))

SectionReadings(section, variables, hs) ==
  SectionReadingsOn(section, variables, hs, KeepsSection(section, variables))

SectionsReadings(sections, variables, hs) ==
  IF sections = <<>> THEN NoReadings
  ELSE Then(SectionReadings(sections[1], variables, hs),
            SectionsReadings(Tail(sections), variables, hs))

RECURSIVE compileSections(_, _, _, _)
\* if (section.sections) compiledSection.sections = this.compileSections(...)
WithNested(compiledSection, section, variables, hs, clock) ==
  IF "sections" \in DOMAIN section
  THEN compiledSection @@
         [sections |-> compileSections(section.sections, variables, hs, clock)]
  ELSE compiledSection

\* the compiled section of a section that is kept: the title is interpolated
\* first, then the content, then the nested sections are compiled; readings
\* are the readings of the clock for the title and for the content
CompileKept(section, variables, hs, clock, readings) ==
  << WithNested(
       [id |-> section.id,
        title |-> InterpolateField(section, "title", variables, hs, clock),
        content |-> InterpolateField(section, "content", variables, hs,
                                     After(clock, readings["title"].n))],
       section, variables, hs,
       After(clock, readings["title"].n + readings["content"].n)) >>

\* the compiled section that stands for the exception the test of the
\* condition of a section threw: its title holds the mark
ThrownSection(section, mark) == << [id |-> section.id, title |-> <<mark>>, content |-> <<>>] >>

\* the compiled sections a section adds, kept being what the test of its
\* condition gave
CompileSectionOn(section, variables, hs, clock, kept) ==
  IF IsThrown(kept) THEN ThrownSection(section, kept.error)
  ELSE IF ~kept.b THEN <<>>
  ELSE CompileKept(section, variables, hs, clock, TextsReadings(section, variables, hs))

\* CompileSection with the test of the condition inverted
CompileSection_Inverted(section, variables, hs, clock) ==
  CompileSectionOn(section, variables, hs, clock,
                   IF "condition" \in DOMAIN section
                   THEN Not(evaluateCondition(section.condition, variables))
                   ELSE Bool(TRUE))

\* the body of the for loop for one section: the compiled sections it adds
CompileSection(section, variables, hs, clock) ==
  CompileSectionOn(section, variables, hs, clock, KeepsSection(section, variables))

compileSections(sections, variables, hs, clock) ==
  IF sections = <<>> THEN <<>>
  ELSE CompileSection(sections[1], variables, hs, clock)
         \o compileSections(Tail(sections), variables, hs,
                            After(clock, SectionReadings(sections[1], variables, hs).n))

\* the texts of a compiled section list, in the order the code computes them
RECURSIVE CompiledTexts(_)
CompiledTexts(sections) ==
  IF sections = <<>> THEN <<>>
  ELSE << sections[1].title, sections[1].content >>
         \o (IF "sections" \in DOMAIN sections[1] THEN CompiledTexts(sections[1].sections)
             ELSE <<>>)
         \o CompiledTexts(Tail(sections))

\* an exception was thrown while a text of the sections was computed
SectionsThrew(sections) ==
  \E i \in 1..Len(CompiledTexts(sections)) : Threw(CompiledTexts(sections)[i])

\* the name of the error a mark stands for
ErrorName(mark) ==
  IF mark = RegExpErrorMark THEN "SyntaxError"
  ELSE IF mark = RegExpOutside THEN RegExpOutside
  ELSE "TypeError"

\* the name of the error thrown while the text was computed
ThrownIn(text) == ErrorName(FirstThrown(text))

\* the name of the first error thrown while the texts of the sections were
\* computed
SectionsThrown(sections) ==
  ThrownIn(CompiledTexts(sections)[
             FirstOf({i \in 1..Len(CompiledTexts(sections)) : Threw(CompiledTexts(sections)[i])})])

\* return { template: resolvedTemplate, sections, variables }, or the error
\* thrown while the sections were compiled
CompiledTemplate(resolvedTemplate, variables, sections) ==
  IF SectionsThrew(sections)
  THEN [status |-> "error", error |-> SectionsThrown(sections), name |-> <<>>]
  ELSE [status |-> "ok", template |-> resolvedTemplate, sections |-> sections,
        variables |-> variables]

\* compile from the resolved variables on: rv is what resolveVariables
\* returned or threw
CompileResolved(resolvedTemplate, rv, hs, clock) ==
  IF ~rv.ok THEN [status |-> "error", error |-> rv.error, name |-> rv.name]
  ELSE CompiledTemplate(resolvedTemplate, rv.variables,
                        compileSections(resolvedTemplate.sections, rv.variables, hs, clock))

\* compile from the resolved template on: ri is what resolveInheritance
\* returned or threw
CompileInherited(ri, context, hs, clock) ==
  IF ~ri.ok THEN [status |-> "error", error |-> ri.error, name |-> ri.name]
  ELSE CompileResolved(ri.template,
                       resolveVariables(ri.template.variables, context.variables),
                       hs, clock)

\* compile: the CompiledTemplate, or the error thrown
compile(template, context, registry, hs, clock) ==
  CompileInherited(resolveInheritance(template, registry), context, hs, clock)

\* the number of readings of the clock in one call of compile, from the
\* resolved variables on
ReadingsResolved(resolvedTemplate, rv, hs) ==
  IF ~rv.ok THEN 0
  ELSE SectionsReadings(resolvedTemplate.sections, rv.variables, hs).n

\* the number of readings of the clock in one call of compile, from the
\* resolved template on
ReadingsInherited(ri, context, hs) ==
  IF ~ri.ok THEN 0
  ELSE ReadingsResolved(ri.template,
                        resolveVariables(ri.template.variables, context.variables), hs)

\* the number of readings of the clock in one call of compile
CompileReadings(template, context, registry, hs) ==
  ReadingsInherited(resolveInheritance(template, registry), context, hs)

\* '#'.repeat(Math.min(level, 6))
\* HeadingPrefix without the cap of six
HeadingPrefix_Uncapped(level) == [i \in 1..level |-> "#"]

HeadingPrefix(level) == [i \in 1..(IF level < 6 THEN level ELSE 6) |-> "#"]

\* renderSection: the lines of a section and of its children
RECURSIVE renderSection(_, _)
RECURSIVE RenderChildren(_, _)
RenderChildren(children, level) ==
  IF children = <<>> THEN <<>>
  ELSE renderSection(children[1], level) \o RenderChildren(Tail(children), level)

renderSection(section, level) ==
  << HeadingPrefix(level) \o <<" ">> \o section.title, <<>> >>
    \o (IF Trim(section.content) # <<>> THEN << Trim(section.content), <<>> >> ELSE <<>>)
    \o (IF "sections" \in DOMAIN section THEN RenderChildren(section.sections, level + 1)
        ELSE <<>>)

\* render with the display name written without interpolation
render_RawName(compiled, hs, clock) ==
  JoinText(
    << <<"#", " ">> \o compiled.template.meta.name, <<>> >>
      \o RenderChildren(compiled.sections, 2),
    <<"\n">>)

\* render: the markdown text of a compiled template
render(compiled, hs, clock) ==
  JoinText(
    << <<"#", " ">> \o interpolate(compiled.template.meta.name, compiled.variables, hs, clock),
       <<>> >>
      \o RenderChildren(compiled.sections, 2),
    <<"\n">>)

\* the number of readings of the clock in one call of render
RenderReadings(compiled, hs) ==
  TextReadings(compiled.template.meta.name, compiled.variables, hs).n

(***************************************************************************)
(* The engine on a heap                                                    *)
(*                                                                         *)
(* Templates, their parts, the maps of the engine and the results of       *)
(* compile are objects that the caller, the registry and the results hold  *)
(* by reference.  A heap is the sequence of the objects made so far; a     *)
(* reference is an index in it.  An object is a Map or an array or a       *)
(* Record<string, unknown> (its entries e) or an object with named         *)
(* properties (its fields f); a property that holds an object holds its    *)
(* reference, texts and values of variables are held as they are.  The     *)
(* operators below are compile and render statement by statement: each     *)
(* takes the heap it starts on and gives the heap it leaves, every `new`,  *)
(* literal, spread and Array.from makes a new object, and every set, push  *)
(* and assignment writes the object the expression of the source denotes.  *)
(* interpolate and evaluateCondition read the variables and the helpers    *)
(* and build texts only.                                                   *)
(***************************************************************************)
\* new Map(), with the entries [k, v] in insertion order
MapCell(e) == [c |-> "map", e |-> e]

\* an array
ListCell(e) == [c |-> "list", e |-> e]

\* a Record<string, unknown>, with the entries [k, v] in insertion order
DictCell(e) == [c |-> "dict", e |-> e]

\* an object with named properties
ObjCell(f) == [c |-> "obj", f |-> f]

\* the heap with a new object, whose reference is Len(h) + 1
New(h, cell) == Append(h, cell)

\* map.set(k, v), and o[k] = v for a Record<string, unknown>
EntrySetAt(h, map, k, v) == [h EXCEPT ![map].e = SetKey(@, k, v)]

\* list.push(x)
PushAt(h, list, x) == [h EXCEPT ![list].e = Append(@, x)]

\* the call threw: the heap it leaves, the error and the readings of the
\* clock it took
ThrowAt(h, error, name, n) == [h |-> h, ok |-> FALSE, error |-> error, name |-> name, n |-> n]

\* SpreadAt writing the properties of v onto existing:
\* Object.assign(existing, v)
SpreadAt_Assign(h, existing, v) ==
  [h |-> [h EXCEPT ![existing].f = Spread(@, h[v].f)], r |-> existing]

\* { ...existing, ...v }: a new object with the properties of existing, then
\* those of v
SpreadAt(h, existing, v) ==
  [h |-> New(h, ObjCell(Spread(h[existing].f, h[v].f))), r |-> Len(h) + 1]

\* { ...undefined, ...v }: a new object with the properties of v
CopyAt(h, v) == [h |-> New(h, ObjCell(h[v].f)), r |-> Len(h) + 1]

\* Array.from(map.values()): a new array
ArrayFromAt(h, map) ==
  [h |-> New(h, ListCell([i \in 1..Len(h[map].e) |-> h[map].e[i].v])), r |-> Len(h) + 1]

\* for (const v of list) merged.set(v[key], v): the Map holds the objects of
\* the list themselves
RECURSIVE SeedMapAt(_, _, _, _, _)
SeedMapAt(h, merged, list, j, key) ==
  IF j > Len(h[list].e) THEN h
  ELSE SeedMapAt(EntrySetAt(h, merged, h[h[list].e[j]].f[key], h[list].e[j]),
                 merged, list, j + 1, key)

\* merged.set(v.name, { ...merged.get(v.name), ...v })
OverrideVariableAt(h, merged, v) ==
  IF h[v].f.name \in Keys(h[merged].e)
  THEN SpreadAt(h, MapGet(h[merged].e, h[v].f.name), v)
  ELSE CopyAt(h, v)

\* for (const v of child) merged.set(v.name, { ...merged.get(v.name), ...v })
RECURSIVE OverrideVariablesAt(_, _, _, _)
\* merged.set(v.name, made) for the object the spread made
VariableSetAt(made, merged, child, j) ==
  OverrideVariablesAt(EntrySetAt(made.h, merged, made.h[made.r].f.name, made.r),
                      merged, child, j + 1)

OverrideVariablesAt(h, merged, child, j) ==
  IF j > Len(h[child].e) THEN h
  ELSE VariableSetAt(OverrideVariableAt(h, merged, h[child].e[j]), merged, child, j)

\* mergeVariables, from the new Map merged on
MergeVariablesInto(h, merged, parent, child) ==
  ArrayFromAt(OverrideVariablesAt(SeedMapAt(h, merged, parent, 1, "name"), merged, child, 1),
              merged)

mergeVariablesAt(h, parent, child) ==
  MergeVariablesInto(New(h, MapCell(<<>>)), Len(h) + 1, parent, child)

\* the sections of an array with their references, as the comparator of the
\* sort reads them
Ordered(h, refs) == [i \in 1..Len(refs) |-> [ref |-> refs[i]] @@ h[refs[i]].f]

\* list.sort((a, b) => (a.order || 0) - (b.order || 0)): the array is sorted
\* in place
SortAt(h, list) ==
  [h EXCEPT ![list].e = [i \in 1..Len(@) |-> SortByOrder(Ordered(h, @))[i].ref]]

\* a call of the merge threw
ThrewAt(x) == "error" \in DOMAIN x

\* Array.from(merged.values()).sort(...): when the comparator throws, the
\* new array is left as it is and nothing holds it
SortedValuesAt(made) ==
  IF ListThrew(SortByOrder(Ordered(made.h, made.h[made.r].e)))
  THEN ThrowAt(made.h, "TypeError", <<>>, 0)
  ELSE [h |-> SortAt(made.h, made.r), r |-> made.r]

RECURSIVE mergeSectionsAt(_, _, _)
RECURSIVE OverrideSectionsAt(_, _, _, _)
\* existing.sections || []
SectionsOrNewAt(h, existing) ==
  IF "sections" \in DOMAIN h[existing].f THEN [h |-> h, r |-> h[existing].f.sections]
  ELSE [h |-> New(h, ListCell(<<>>)), r |-> Len(h) + 1]

\* this.mergeSections(existing.sections || [], s.sections)
NestedMergeAt(from, s) == mergeSectionsAt(from.h, from.r, from.h[s].f.sections)

\* { ...existing, ...s, sections: nested }: the property sections of the new
\* object is set last
WithSectionsAt(made, nested) ==
  [h |-> [made.h EXCEPT ![made.r].f = [sections |-> nested] @@ @], r |-> made.r]

\* the spread once the nested sections are merged
SpreadNested(nested, existing, s) ==
  IF ThrewAt(nested) THEN nested
  ELSE WithSectionsAt(SpreadAt(nested.h, existing, s), nested.r)

\* the object for a section s of the child that the parent has as existing
OverriddenAt(h, existing, s) ==
  IF "sections" \in DOMAIN h[s].f
  THEN SpreadNested(NestedMergeAt(SectionsOrNewAt(h, existing), s), existing, s)
  ELSE IF "sections" \in DOMAIN h[existing].f
  THEN WithSectionsAt(SpreadAt(h, existing, s), h[existing].f.sections)
  ELSE SpreadAt(h, existing, s)

\* const existing = merged.get(s.id); if (existing) ... else merged.set(s.id, s)
OverrideSectionAt(h, merged, s) ==
  IF h[s].f.id \in Keys(h[merged].e)
  THEN OverriddenAt(h, MapGet(h[merged].e, h[s].f.id), s)
  ELSE [h |-> h, r |-> s]

\* merged.set(s.id, made)
SectionSetAt(made, merged, child, j) ==
  IF ThrewAt(made) THEN made
  ELSE OverrideSectionsAt(EntrySetAt(made.h, merged, made.h[made.r].f.id, made.r),
                          merged, child, j + 1)

\* the loop over the sections of the child: the heap it leaves, or the
\* exception a nested merge threw
OverrideSectionsAt(h, merged, child, j) ==
  IF j > Len(h[child].e) THEN [h |-> h]
  ELSE SectionSetAt(OverrideSectionAt(h, merged, h[child].e[j]), merged, child, j)

\* return Array.from(merged.values()).sort(...), once the loop is over
SortedMergeAt(overridden, merged) ==
  IF ThrewAt(overridden) THEN overridden
  ELSE SortedValuesAt(ArrayFromAt(overridden.h, merged))

\* mergeSections, from the new Map merged on
MergeSectionsInto(h, merged, parent, child) ==
  SortedMergeAt(OverrideSectionsAt(SeedMapAt(h, merged, parent, 1, "id"), merged, child, 1),
                merged)

mergeSectionsAt(h, parent, child) ==
  MergeSectionsInto(New(h, MapCell(<<>>)), Len(h) + 1, parent, child)

\* the prompts of a template, none when it has no array of them
PromptsAt(h, template) ==
  IF "prompts" \in DOMAIN h[template].f THEN h[h[template].f.prompts].e ELSE <<>>

\* ConcatPromptsAt pushing the prompts of the child onto the array of the
\* parent: resolvedParent.prompts.push(...(template.prompts || []))
ConcatPromptsAt_Push(h, resolvedParent, template) ==
  IF "prompts" \in DOMAIN h[resolvedParent].f
  THEN [h |-> [h EXCEPT ![h[resolvedParent].f.prompts].e = @ \o PromptsAt(h, template)],
        r |-> h[resolvedParent].f.prompts]
  ELSE [h |-> New(h, ListCell(PromptsAt(h, template))), r |-> Len(h) + 1]

\* [...(resolvedParent.prompts || []), ...(template.prompts || [])]: a new
\* array
ConcatPromptsAt(h, resolvedParent, template) ==
  [h |-> New(h, ListCell(PromptsAt(h, resolvedParent) \o PromptsAt(h, template))),
   r |-> Len(h) + 1]

\* ParentNotFoundAt naming the template that extends instead of the id it
\* extends
ParentNotFoundAt_NamesChild(h, template) ==
  ThrowAt(h, "Parent template not found", h[h[template].f.meta].f.id, 0)

\* throw new Error(`Parent template not found: ${template.extends}`)
ParentNotFoundAt(h, template) ==
  ThrowAt(h, "Parent template not found", h[template].f.extends, 0)

\* the object resolveInheritance returns for a template that extends: the
\* properties are computed in the order the literal writes them
MergedTemplate(prompts, meta, variables, sections) ==
  [h |-> New(prompts.h, ObjCell([meta |-> meta, variables |-> variables,
                                 sections |-> sections, prompts |-> prompts.r])),
   ok |-> TRUE, r |-> Len(prompts.h) + 1]

MergedPrompts(sections, meta, variables, resolvedParent, template) ==
  IF ThrewAt(sections) THEN sections
  ELSE MergedTemplate(ConcatPromptsAt(sections.h, resolvedParent, template), meta, variables,
                      sections.r)

MergedSections(variables, meta, resolvedParent, template) ==
  MergedPrompts(mergeSectionsAt(variables.h, variables.h[resolvedParent].f.sections,
                                variables.h[template].f.sections),
                meta, variables.r, resolvedParent, template)

MergedVariables(meta, resolvedParent, template) ==
  MergedSections(mergeVariablesAt(meta.h, meta.h[resolvedParent].f.variables,
                                  meta.h[template].f.variables),
                 meta.r, resolvedParent, template)

\* resolveInheritance once the parent is resolved: rp is what the recursive
\* call returned or threw
MergedOntoAt(rp, template) ==
  IF ~rp.ok THEN rp
  ELSE MergedVariables(SpreadAt(rp.h, rp.h[rp.r].f.meta, rp.h[template].f.meta), rp.r, template)

\* resolveInheritance: a template without extends is returned as it is, the
\* same object.  fuel counts the calls still allowed, as in
\* resolveInheritanceFuel
RECURSIVE resolveInheritanceAt(_, _, _, _)
resolveInheritanceAt(h, registry, template, fuel) ==
  IF NoExtends(h[template].f) THEN [h |-> h, ok |-> TRUE, r |-> template]
  ELSE IF h[template].f.extends \notin Keys(h[registry].e)
  THEN ParentNotFoundAt(h, template)
  ELSE IF fuel = 0 THEN ThrowAt(h, "Maximum call stack size exceeded", <<>>, 0)
  ELSE MergedOntoAt(
         resolveInheritanceAt(h, registry, MapGet(h[registry].e, h[template].f.extends),
                              fuel - 1),
         template)

\* resolveVariables, first loop, writing the mapping at resolved
RECURSIVE ResolveDeclaredAt(_, _, _, _, _)
ResolveDeclaredAt(h, resolved, definitions, provided, j) ==
  IF j > Len(h[definitions].e) THEN [h |-> h, ok |-> TRUE]
  ELSE LET def == h[h[definitions].e[j]].f IN
       IF Lookup(h[provided].e, def.name) # Undef
       THEN ResolveDeclaredAt(
              EntrySetAt(h, resolved, def.name, Lookup(h[provided].e, def.name)),
              resolved, definitions, provided, j + 1)
       ELSE IF Get(def, "default") # Undef
       THEN ResolveDeclaredAt(EntrySetAt(h, resolved, def.name, def.default),
                              resolved, definitions, provided, j + 1)
       ELSE IF ~Falsy(Get(def, "required"))
       THEN ThrowAt(h, "Required variable missing", def.name, 0)
       ELSE ResolveDeclaredAt(h, resolved, definitions, provided, j + 1)

\* resolveVariables, second loop, over the entries Object.entries(provided)
\* gave
RECURSIVE AddExtrasAt(_, _, _, _)
AddExtrasAt(h, resolved, entries, j) ==
  IF j > Len(entries) THEN h
  ELSE AddExtrasAt(IF Lookup(h[resolved].e, entries[j].k) = Undef
                   THEN EntrySetAt(h, resolved, entries[j].k, entries[j].v)
                   ELSE h,
                   resolved, entries, j + 1)

\* resolveVariables once the declared variables are resolved
ExtrasInto(declared, resolved, provided) ==
  IF ~declared.ok THEN declared
  ELSE [h |-> AddExtrasAt(declared.h, resolved, declared.h[provided].e, 1), ok |-> TRUE,
        r |-> resolved]

\* resolveVariables, from the new mapping resolved on
ResolveInto(h, resolved, definitions, provided) ==
  ExtrasInto(ResolveDeclaredAt(h, resolved, definitions, provided, 1), resolved, provided)

\* resolveVariables: const resolved = {} is a new mapping
resolveVariablesAt(h, definitions, provided) ==
  ResolveInto(New(h, DictCell(<<>>)), Len(h) + 1, definitions, provided)

\* this.interpolate(section[f], variables) once n readings of the clock are
\* taken, with the readings taken after it
TextAt(h, section, f, variables, hs, clock, n) ==
  [text |-> InterpolateField(h[section].f, f, h[variables].e, h[hs].e, After(clock, n)),
   n |-> n + FieldReadings(h[section].f, f, h[variables].e, h[hs].e).n]

RECURSIVE compileSectionsAt(_, _, _, _, _, _)
\* compiledSection.sections = nested, for what compileSections returned or
\* threw
NestedSetAt(nested, compiledSection) ==
  IF ~nested.ok THEN nested
  ELSE [h |-> [nested.h EXCEPT ![compiledSection].f = [sections |-> nested.r] @@ @],
        ok |-> TRUE, r |-> compiledSection, n |-> nested.n]

\* if (section.sections) compiledSection.sections = this.compileSections(...)
KeptNestedAt(h, compiledSection, section, variables, hs, clock, n) ==
  IF "sections" \in DOMAIN h[section].f
  THEN NestedSetAt(compileSectionsAt(h, h[section].f.sections, variables, hs, clock, n),
                   compiledSection)
  ELSE [h |-> h, ok |-> TRUE, r |-> compiledSection, n |-> n]

\* const compiledSection = { id, title, content }, once the title is
\* interpolated
KeptContentAt(h, section, variables, hs, clock, title, content) ==
  IF Threw(content.text) THEN ThrowAt(h, ThrownIn(content.text), <<>>, content.n)
  ELSE KeptNestedAt(New(h, ObjCell([id |-> h[section].f.id, title |-> title,
                                    content |-> content.text])),
                    Len(h) + 1, section, variables, hs, clock, content.n)

KeptTitleAt(h, section, variables, hs, clock, title) ==
  IF Threw(title.text) THEN ThrowAt(h, ThrownIn(title.text), <<>>, title.n)
  ELSE KeptContentAt(h, section, variables, hs, clock, title.text,
                     TextAt(h, section, "content", variables, hs, clock, title.n))

\* the compiled section of a section that is kept
CompileKeptAt(h, section, variables, hs, clock, n) ==
  KeptTitleAt(h, section, variables, hs, clock,
              TextAt(h, section, "title", variables, hs, clock, n))

\* the for loop of compileSections from the section of index j on
RECURSIVE CompileLoopAt(_, _, _, _, _, _, _, _)
\* compiled.push(compiledSection), for what the body of the loop made or threw
PushKeptAt(kept, compiled, sections, j, variables, hs, clock) ==
  IF ~kept.ok THEN kept
  ELSE CompileLoopAt(PushAt(kept.h, compiled, kept.r), compiled, sections, j + 1,
                     variables, hs, clock, kept.n)

\* the body of the loop for the section of index j, kept being what the test
\* of its condition gave
CompileNextAt(h, compiled, sections, j, variables, hs, clock, n, kept) ==
  IF IsThrown(kept) THEN ThrowAt(h, ErrorName(kept.error), <<>>, n)
  ELSE IF ~kept.b
  THEN CompileLoopAt(h, compiled, sections, j + 1, variables, hs, clock, n)
  ELSE PushKeptAt(CompileKeptAt(h, h[sections].e[j], variables, hs, clock, n),
                  compiled, sections, j, variables, hs, clock)

CompileLoopAt(h, compiled, sections, j, variables, hs, clock, n) ==
  IF j > Len(h[sections].e) THEN [h |-> h, ok |-> TRUE, r |-> compiled, n |-> n]
  ELSE CompileNextAt(h, compiled, sections, j, variables, hs, clock, n,
                     KeepsSection(h[h[sections].e[j]].f, h[variables].e))

\* compileSections: const compiled = [] is a new array
compileSectionsAt(h, sections, variables, hs, clock, n) ==
  CompileLoopAt(New(h, ListCell(<<>>)), Len(h) + 1, sections, 1, variables, hs, clock, n)

\* return { template: resolvedTemplate, sections, variables }
CompiledAt(sections, resolvedTemplate, variables) ==
  IF ~sections.ok THEN sections
  ELSE [h |-> New(sections.h, ObjCell([template |-> resolvedTemplate, sections |-> sections.r,
                                       variables |-> variables])),
        ok |-> TRUE, r |-> Len(sections.h) + 1, n |-> sections.n]

\* compile from the resolved variables on
CompileResolvedAt(rv, resolvedTemplate, hs, clock) ==
  IF ~rv.ok THEN rv
  ELSE CompiledAt(compileSectionsAt(rv.h, rv.h[resolvedTemplate].f.sections, rv.r, hs,
                                    clock, 0),
                  resolvedTemplate, rv.r)

\* compile from the resolved template on
CompileInheritedAt(ri, hs, context, clock) ==
  IF ~ri.ok THEN ri
  ELSE CompileResolvedAt(
         resolveVariablesAt(ri.h, ri.h[ri.r].f.variables, ri.h[context].f.variables),
         ri.r, hs, clock)

\* compile(template, context) of the engine whose maps are registry and hs:
\* the heap the call leaves, the CompiledTemplate or the error thrown, and the
\* readings of the clock taken
compileAt(h, registry, hs, template, context, clock) ==
  CompileInheritedAt(resolveInheritanceAt(h, registry, template, Len(h[registry].e)),
                     hs, context, clock)

\* renderSection: const lines = [] is a new array, which the lines are pushed
\* onto
RECURSIVE renderSectionAt(_, _, _)
RECURSIVE RenderChildrenAt(_, _, _, _, _)
\* lines.push(...this.renderSection(child, level + 1))
PushLinesAt(made, lines, children, j, level) ==
  RenderChildrenAt([made.h EXCEPT ![lines].e = @ \o made.h[made.r].e],
                   lines, children, j + 1, level)

RenderChildrenAt(h, lines, children, j, level) ==
  IF j > Len(h[children].e) THEN [h |-> h, r |-> lines]
  ELSE PushLinesAt(renderSectionAt(h, h[children].e[j], level), lines, children, j, level)

\* renderSection from the new array lines on
RenderSectionInto(h, lines, section, level) ==
  IF "sections" \in DOMAIN h[section].f
  THEN RenderChildrenAt(h, lines, h[section].f.sections, 1, level + 1)
  ELSE [h |-> h, r |-> lines]

renderSectionAt(h, section, level) ==
  RenderSectionInto(
    New(h, ListCell(<< HeadingPrefix(level) \o <<" ">> \o h[section].f.title, <<>> >>
                      \o (IF Trim(h[section].f.content) # <<>>
                          THEN << Trim(h[section].f.content), <<>> >> ELSE <<>>))),
    Len(h) + 1, section, level)

\* lines.join('\n')
JoinedAt(made, n) == [h |-> made.h, text |-> JoinText(made.h[made.r].e, <<"\n">>), n |-> n]

\* render once the name is interpolated: the text holds the mark of an
\* exception when the interpolation threw, and then nothing is pushed
RenderTitledAt(h, lines, compiled, title, n) ==
  IF Threw(title) THEN [h |-> h, text |-> title, n |-> n]
  ELSE JoinedAt(RenderChildrenAt(PushAt(PushAt(h, lines, <<"#", " ">> \o title), lines, <<>>),
                                 lines, h[compiled].f.sections, 1, 2),
                n)

\* render(compiled): const lines = [] is a new array; the heap the call
\* leaves, the text and the readings of the clock taken
renderAt(h, hs, compiled, clock) ==
  RenderTitledAt(
    New(h, ListCell(<<>>)), Len(h) + 1, compiled,
    interpolate(h[h[h[compiled].f.template].f.meta].f.name, h[h[compiled].f.variables].e,
                h[hs].e, clock),
    TextReadings(h[h[h[compiled].f.template].f.meta].f.name, h[h[compiled].f.variables].e,
                 h[hs].e).n)

\* What a heap holds, read back as the values of the operators above
\* the sections of an array, with the nested sections of each
RECURSIVE LoadSections(_, _)
LoadSections(h, list) ==
  [i \in 1..Len(h[list].e) |->
     IF "sections" \in DOMAIN h[h[list].e[i]].f
     THEN [h[h[list].e[i]].f EXCEPT !.sections = LoadSections(h, @)]
     ELSE h[h[list].e[i]].f]

\* a template with its meta, its variable definitions, its sections and its
\* prompts
LoadTemplate(h, template) ==
  [meta |-> h[h[template].f.meta].f,
   variables |-> LoadSections(h, h[template].f.variables),
   sections |-> LoadSections(h, h[template].f.sections)]
    @@ (IF "prompts" \in DOMAIN h[template].f
        THEN [prompts |-> h[h[template].f.prompts].e] ELSE <<>>)
    @@ (IF "extends" \in DOMAIN h[template].f
        THEN [extends |-> h[template].f.extends] ELSE <<>>)

\* the registered templates, in insertion order
LoadRegistry(h, registry) ==
  [i \in 1..Len(h[registry].e) |-> LoadTemplate(h, h[registry].e[i].v)]

\* a CompiledTemplate
LoadCompiled(h, compiled) ==
  [status |-> "ok",
   template |-> LoadTemplate(h, h[compiled].f.template),
   sections |-> LoadSections(h, h[compiled].f.sections),
   variables |-> h[h[compiled].f.variables].e]

\* what a call of compile returned or threw, as the caller reads it when the
\* call ends
ReturnedAt(call) ==
  IF call.ok THEN [status |-> "ok", r |-> call.r, value |-> LoadCompiled(call.h, call.r)]
  ELSE [status |-> "error", error |-> call.error, name |-> call.name]

(***************************************************************************)
(* State                                                                   *)
(***************************************************************************)
VARIABLES
  templates,  \* TemplateEngine.templates: the registered templates, in insertion order
              \* (on a heap: the reference of the Map)
  helpers,    \* TemplateEngine.helpers: the helpers map (on a heap: its reference)
  now,        \* the clock: the instant new Date() returns
  compiled,   \* what the last call of compile returned or threw, with its arguments
  rendered,   \* what render returned for the value compile returned
  arg,        \* the arguments under construction for a call of interpolate or process
  res,        \* the result of that call
  heap        \* the objects made so far, in the specification on a heap; empty elsewhere

vars == <<templates, helpers, now, compiled, rendered, arg, res, heap>>

None == [status |-> "none"]

(***************************************************************************)
(* Names and values of the interpolation inputs                            *)
(***************************************************************************)
N_x == <<"x">>

N_u == <<"u">>

N_flag == <<"f","l","a","g">>

N_name == <<"n","a","m","e">>

N_items == <<"i","t","e","m","s">>

N_techStack == <<"t","e","c","h","S","t","a","c","k">>

S_Ada == <<"A","d","a">>

S_Go == <<"G","o">>

S_Rust == <<"R","u","s","t">>

\* {{name}}
Ref(name) == LB \o name \o RB

V_techStack == Arr(<< Str(S_Go), Str(S_Rust) >>)

V_items ==
  Arr(<< Obj(<< [k |-> N_name, v |-> Str(<<"A">>)] >>),
         Obj(<< [k |-> N_name, v |-> Str(<<"B">>)] >>) >>)

N_rows == <<"r","o","w","s">>

\* [{ "a|Z|b": "" }]
V_rows == Arr(<< Obj(<< [k |-> <<"a","|","Z","|","b">>, v |-> Str(<<>>)] >>) >>)

\* { toString: 3 }: an object String and Number cannot convert
V_noPrimitive == Obj(<< [k |-> N_toString, v |-> Num(3)] >>)

\* the caller's variable mappings: the last one holds values without
\* primitive value
VarMaps ==
  { <<>>,
    << [k |-> N_x, v |-> Str(S_Ada)], [k |-> N_flag, v |-> Bool(TRUE)],
       [k |-> N_techStack, v |-> V_techStack], [k |-> N_items, v |-> V_items],
       [k |-> N_rows, v |-> V_rows] >>,
    << [k |-> N_x, v |-> Str(Ref(N_x))], [k |-> N_flag, v |-> Bool(FALSE)],
       [k |-> N_techStack, v |-> Arr(<<>>)], [k |-> N_items, v |-> Arr(<< Str(Ref(N_x)) >>)] >>,
    << [k |-> N_x, v |-> Str(<<>>)], [k |-> N_flag, v |-> Null],
       [k |-> N_name, v |-> Num(7)], [k |-> N_items, v |-> V_items] >>,
    << [k |-> N_x, v |-> V_noPrimitive], [k |-> N_flag, v |-> V_noPrimitive],
       [k |-> N_techStack, v |-> Arr(<< Str(S_Go), V_noPrimitive >>)],
       [k |-> N_items, v |-> Arr(<< Obj(<< [k |-> N_name, v |-> V_noPrimitive] >>) >>)] >> }

\* {{join techStack "<sep>"}}
JoinCall(sep) ==
  LB \o H_join \o <<" ">> \o N_techStack \o <<" ", "\"">> \o sep \o <<"\"">> \o RB

\* {{#each items}}{{name}}{{this}}{{/each}}
EachCall == T_each \o <<" ">> \o N_items \o RB \o Ref(N_name) \o T_this \o T_endeach

\* {{#each rows}}{{Zx}}{{/each}}
EachRows == T_each \o <<" ">> \o N_rows \o RB \o Ref(<<"Z","x">>) \o T_endeach

\* {{default flag "x"}}
DefaultCall ==
  LB \o H_default \o <<" ">> \o N_flag \o <<" ", "\"", "x", "\"">> \o RB

\* the separators of the join calls
Separators == { <<",", " ">>, <<"-">>, <<" ", "|", " ">> }

\* the pieces a text is written from: plain text, bare references, whole
\* blocks, helper calls, and the two halves of a reference
Pieces ==
  { <<"H","i"," ">>,
    Ref(N_x), Ref(N_u), Ref(H_uppercase), Ref(N_constructor),
    T_if \o <<" ">> \o N_flag \o RB \o Ref(N_u) \o T_endif,
    T_if \o <<" ">> \o N_x \o RB \o LB \o T_else \o LB \o T_endif,
    EachCall, EachRows,
    LB \o H_lowercase \o <<" ">> \o Ref(N_u) \o RB,
    LB, N_x \o RB, DefaultCall }
    \cup {JoinCall(sep) : sep \in Separators}

\* the greatest number of pieces of a text
MaxPieces == 2

\* the template process is called with for a text: the text is the display
\* name, and the title and content of a section and of a nested section
TextTemplate(text) ==
  [meta |-> [id |-> <<"t">>, name |-> text],
   variables |-> <<>>,
   sections |-> << [id |-> <<"a">>, title |-> text, content |-> text,
                    sections |-> << [id |-> <<"b">>, title |-> text, content |-> text] >>] >>]

(***************************************************************************)
(* The interpolation machine: a text is written piece by piece, and        *)
(* interpolate or process is called on it                                  *)
(***************************************************************************)
InitInterpolate ==
  /\ heap = <<>>
  /\ templates = <<>>
  /\ helpers = InitHelpers
  /\ now = 0
  /\ compiled = None
  /\ rendered = None
  /\ arg \in {[n |-> 0, text |-> <<>>, variables |-> m] : m \in VarMaps}
  /\ res = None

\* the caller writes one more piece of the text
Write(p) ==
  /\ arg.n < MaxPieces
  /\ arg' = [arg EXCEPT !.n = @ + 1, !.text = @ \o p]
  /\ res' = None
  /\ UNCHANGED <<heap, templates, helpers, now, compiled, rendered>>

\* interpolate(text, variables)
Interpolate ==
  /\ res = None
  /\ \E n \in {TextReadings(arg.text, arg.variables, helpers).n} :
       \E clock \in Clocks(now, n) :
         /\ res' = [status |-> "interpolated",
                    out |-> interpolate(arg.text, arg.variables, helpers, clock)]
         /\ now' = LastReading(clock, n)
  /\ UNCHANGED <<heap, templates, helpers, compiled, rendered, arg>>

\* what a call of render gave: the text, or the error thrown while the text
\* was computed
Rendered(text) ==
  IF Threw(text) THEN [status |-> "error", error |-> ThrownIn(text)]
  ELSE [status |-> "ok", text |-> text]

\* render, or the error it throws
Render(c, hs, clock) == Rendered(render(c, hs, clock))

\* process from the compiled template on: c is what compile returned or
\* threw, and clock the clock when compile has returned
Processing(c, hs, clock) ==
  [status |-> "processed", compiled |-> c,
   rendered |-> IF c.status = "ok" THEN Render(c, hs, clock) ELSE None]

\* the number of readings of the clock in the render of process: c is what
\* compile returned or threw
ReadingsAfter(c, hs) == IF c.status = "ok" THEN RenderReadings(c, hs) ELSE 0

\* process(template, { variables }): compile, then render; nc and nr are the
\* numbers of readings of the clock in the one and in the other
Process ==
  /\ res = None
  /\ \E nc \in {CompileReadings(TextTemplate(arg.text), [variables |-> arg.variables],
                                 templates, helpers)} :
       \E clock \in Clocks(now, nc) :
         \E c \in {compile(TextTemplate(arg.text), [variables |-> arg.variables],
                           templates, helpers, clock)} :
           \E nr \in {ReadingsAfter(c, helpers)} :
             \E later \in Clocks(LastReading(clock, nc), nr) :
               /\ res' = Processing(c, helpers, later)
               /\ now' = LastReading(later, nr)
  /\ UNCHANGED <<heap, templates, helpers, compiled, rendered, arg>>

NextInterpolate ==
  \/ \E p \in Pieces : Write(p)
  \/ Interpolate
  \/ Process

SpecInterpolate == InitInterpolate /\ [][NextInterpolate]_vars

(***************************************************************************)
(* The engine: its operations on the registry, and the calls of compile    *)
(* and render.  The caller holds at most one compiled template (compiled,  *)
(* with the text render gave for it) and registers templates while it      *)
(* holds none.                                                             *)
(***************************************************************************)
\* this.templates.set(template.meta.id, template)
\* RegSet keeping the template first registered under an id
RegSet_KeepFirst(registry, template) ==
  IF RegIdx(registry, template.meta.id) = 0 THEN Append(registry, template) ELSE registry

RegSet(registry, template) ==
  LET i == RegIdx(registry, template.meta.id) IN
  IF i = 0 THEN Append(registry, template) ELSE [registry EXCEPT ![i] = template]

\* getTemplate(id): the registered template, or no template
getTemplate(registry, id) ==
  LET i == RegIdx(registry, id) IN
  IF i = 0 THEN None ELSE [status |-> "found", template |-> registry[i]]

\* listTemplates()
listTemplates(registry) == registry

\* registerTemplate(template)
RegisterTemplate(t) ==
  /\ compiled = None
  /\ templates' = RegSet(templates, t)
  /\ UNCHANGED <<heap, helpers, now, compiled, rendered, arg, res>>

\* compile(template, context): the caller keeps the arguments, the instant of
\* the call and what the call returned or threw
Compile(t, context) ==
  /\ compiled = None
  /\ \E n \in {CompileReadings(t, context, templates, helpers)} :
       \E clock \in Clocks(now, n) :
         /\ compiled' = [input |-> [template |-> t, context |-> context], at |-> now,
                         result |-> compile(t, context, templates, helpers, clock)]
         /\ now' = LastReading(clock, n)
  /\ UNCHANGED <<heap, templates, helpers, rendered, arg, res>>

\* render(compiled) of the value compile returned
RenderCompiled ==
  /\ compiled # None
  /\ compiled.result.status = "ok"
  /\ rendered = None
  /\ \E n \in {RenderReadings(compiled.result, helpers)} :
       \E clock \in Clocks(now, n) :
         /\ rendered' = Render(compiled.result, helpers, clock)
         /\ now' = LastReading(clock, n)
  /\ UNCHANGED <<heap, templates, helpers, compiled, arg, res>>

\* the caller drops the compiled template it holds
Discard ==
  /\ compiled # None
  /\ compiled' = None
  /\ rendered' = None
  /\ UNCHANGED <<heap, templates, helpers, now, arg, res>>

\* a second passes
Tick ==
  /\ now < MaxTicks
  /\ now' = now + 1
  /\ UNCHANGED <<heap, templates, helpers, compiled, rendered, arg, res>>

InitEngine ==
  /\ heap = <<>>
  /\ templates = <<>>
  /\ helpers = InitHelpers
  /\ now = 0
  /\ compiled = None
  /\ rendered = None
  /\ arg = None
  /\ res = None

(***************************************************************************)
(* The engine on a heap, on a catalogue of templates, with the clock       *)
(* running.  The caller makes the templates of the catalogue and the       *)
(* contexts once and passes the same objects to every call; templates and  *)
(* helpers hold the references of the two maps of the engine.  The caller  *)
(* compiles once, may compile again with the same arguments, and may       *)
(* render the value the first call returned.                               *)
(***************************************************************************)
S_base == <<"b","a","s","e">>

S_child == <<"c","h","i","l","d">>

S_orphan == <<"o","r","p","h","a","n">>

S_intro == <<"i","n","t","r","o">>

S_body == <<"b","o","d","y">>

S_more == <<"m","o","r","e">>

\* a template whose section intro writes the date and the time of the call,
\* with its sections declared out of order
T_base ==
  [meta |-> [id |-> S_base, name |-> <<"B","a","s","e">>],
   variables |-> << [name |-> N_x, default |-> Str(S_Ada)] >>,
   sections |-> << [id |-> S_intro, title |-> <<"I","n","t","r","o">>,
                    content |-> <<"O","n"," ","{","{","d","a","t","e","}","}"," ","a","t"," ","{","{","d","a","t","e"," ","H","H",":","m","m",":","s","s","}","}">>, order |-> Num(2)],
                   [id |-> S_body, title |-> Ref(N_x),
                    content |-> <<"{","{","u","p","p","e","r","c","a","s","e"," ","x","}","}">>, order |-> Num(1),
                    sections |-> << [id |-> S_more, title |-> <<"M","o","r","e">>,
                                     content |-> <<"m">>, order |-> Num(1)] >>] >>,
   prompts |-> << <<"p">> >>]

\* a template that extends base, replaces the content of intro and adds a
\* section before more in body
T_child ==
  [meta |-> [id |-> S_child, name |-> <<"C","h","i","l","d"," ","{","{","x","}","}">>],
   extends |-> S_base,
   variables |-> << [name |-> N_x, default |-> Str(S_Go)] >>,
   sections |-> << [id |-> S_intro, content |-> <<"H","i"," ","{","{","x","}","}">>],
                   [id |-> S_body,
                    sections |-> << [id |-> <<"f","i","r","s","t">>, title |-> <<"F">>,
                                     content |-> <<>>] >>] >>,
   prompts |-> << <<"q">> >>]

\* a template whose parent is never registered
T_orphan ==
  [meta |-> [id |-> S_orphan, name |-> <<"O","r","p","h","a","n">>],
   extends |-> <<"n","o","p","e">>,
   variables |-> <<>>,
   sections |-> <<>>]

\* a template that extends orphan
T_heir ==
  [meta |-> [id |-> <<"h","e","i","r">>, name |-> <<"H","e","i","r">>],
   extends |-> S_orphan,
   variables |-> <<>>,
   sections |-> <<>>]

\* a template whose section formats the date as the variable x says, which
\* throws when x is no string
T_stamp ==
  [meta |-> [id |-> <<"s","t","a","m","p">>, name |-> <<"S","t","a","m","p">>],
   variables |-> <<>>,
   sections |-> << [id |-> S_intro, title |-> <<"T">>, content |-> <<"t">>],
                   [id |-> S_body, title |-> <<"A","t">>,
                    content |-> <<"{","{","d","a","t","e"," ","x","}","}">>] >>]

Catalogue == <<T_base, T_child, T_orphan, T_heir, T_stamp>>

EngineContexts ==
  << [variables |-> <<>>],
     [variables |-> << [k |-> N_x, v |-> Str(S_Rust)] >>],
     [variables |-> << [k |-> N_x, v |-> Num(7)] >>] >>

\* the greatest number of templates in the registry
MaxRegistered == 3

\* the readings of the clock in one call between which seconds may pass
MaxReadings == 2

\* The objects the caller makes.  An array of sections or of variable
\* definitions: the objects of its items from index j on, nested sections
\* first, then the array of their references refs
RECURSIVE StoreList(_, _, _, _)
StoreNested(nested, items, refs, j) ==
  StoreList(New(nested.h, ObjCell([items[j] EXCEPT !.sections = nested.r])), items,
            Append(refs, Len(nested.h) + 1), j + 1)

StoreList(h, items, refs, j) ==
  IF j > Len(items) THEN [h |-> New(h, ListCell(refs)), r |-> Len(h) + 1]
  ELSE IF "sections" \in DOMAIN items[j]
  THEN StoreNested(StoreList(h, items[j].sections, <<>>, 1), items, refs, j)
  ELSE StoreList(New(h, ObjCell(items[j])), items, Append(refs, Len(h) + 1), j + 1)

\* a template: its meta, its variable definitions, its sections, its prompts
\* when it has any, then the template itself
StoreWhole(h, t, meta, variables, sections) ==
  [h |-> New(IF "prompts" \in DOMAIN t THEN New(h, ListCell(t.prompts)) ELSE h,
             ObjCell([meta |-> meta, variables |-> variables, sections |-> sections]
                       @@ (IF "prompts" \in DOMAIN t THEN [prompts |-> Len(h) + 1] ELSE <<>>)
                       @@ (IF "extends" \in DOMAIN t THEN [extends |-> t.extends] ELSE <<>>))),
   r |-> Len(h) + (IF "prompts" \in DOMAIN t THEN 2 ELSE 1)]

StoreSections(variables, t, meta) ==
  StoreWhole(StoreList(variables.h, t.sections, <<>>, 1).h, t, meta, variables.r,
             StoreList(variables.h, t.sections, <<>>, 1).r)

StoreTemplate(h, t) ==
  StoreSections(StoreList(New(h, ObjCell(t.meta)), t.variables, <<>>, 1), t, Len(h) + 1)

\* a context: the mapping of the variables, then the context itself
StoreContext(h, c) ==
  [h |-> New(New(h, DictCell(c.variables)), ObjCell([variables |-> Len(h) + 1])),
   r |-> Len(h) + 2]

\* the objects of a sequence of templates or of contexts from index j on,
\* with the references of those stored before
RECURSIVE StoreAll(_, _, _, _, _)
StoreNext(stored, items, refs, j, template) ==
  StoreAll(stored.h, items, Append(refs, stored.r), j + 1, template)

StoreAll(h, items, refs, j, template) ==
  IF j > Len(items) THEN [h |-> h, refs |-> refs]
  ELSE StoreNext(IF template THEN StoreTemplate(h, items[j]) ELSE StoreContext(h, items[j]),
                 items, refs, j, template)

\* this.templates = new Map(), this.helpers = new Map(), and
\* registerDefaultHelpers
EngineHeap == << MapCell(<<>>), MapCell(InitHelpers) >>

StoredTemplates == StoreAll(EngineHeap, Catalogue, <<>>, 1, TRUE)

StoredContexts == StoreAll(StoredTemplates.h, EngineContexts, <<>>, 1, FALSE)

\* the reference of a template of the catalogue
RefOf(t) == StoredTemplates.refs[CHOOSE i \in 1..Len(Catalogue) : Catalogue[i] = t]

TemplateRefs == {StoredTemplates.refs[i] : i \in 1..Len(Catalogue)}

ContextRefs == {StoredContexts.refs[i] : i \in 1..Len(EngineContexts)}

InitHeap ==
  /\ heap = StoredContexts.h
  /\ templates = 1
  /\ helpers = 2
  /\ now = 0
  /\ compiled = None
  /\ rendered = None
  /\ arg = None
  /\ res = None

\* registerTemplate(template): this.templates.set(template.meta.id, template)
registerTemplateAt(h, registry, template) ==
  EntrySetAt(h, registry, h[h[template].f.meta].f.id, template)

RegisterAt(t) ==
  /\ compiled = None
  /\ Len(registerTemplateAt(heap, templates, t)[templates].e) <= MaxRegistered
  /\ heap' = registerTemplateAt(heap, templates, t)
  /\ UNCHANGED <<templates, helpers, now, compiled, rendered, arg, res>>

\* compile(t, c): the caller keeps the arguments, the instant of the call,
\* the readings of the clock the call took and what it returned or threw
CompileAt(t, c) ==
  /\ compiled = None
  /\ \E clock \in Clocks(now, MaxReadings) :
       \E call \in {compileAt(heap, templates, helpers, t, c, clock)} :
         /\ heap' = call.h
         /\ compiled' = [input |-> [template |-> t, context |-> c], at |-> now,
                         readings |-> call.n, result |-> ReturnedAt(call)]
         /\ now' = LastReading(clock, call.n)
  /\ UNCHANGED <<templates, helpers, rendered, arg, res>>

\* compile called a second time with the same arguments: the caller keeps
\* what the second call returned beside what the first returned
RecompileAt ==
  /\ compiled # None
  /\ "again" \notin DOMAIN compiled
  /\ \E clock \in Clocks(now, MaxReadings) :
       \E call \in {compileAt(heap, templates, helpers, compiled.input.template,
                              compiled.input.context, clock)} :
         /\ heap' = call.h
         /\ compiled' = compiled @@
                          [again |-> [at |-> now, readings |-> call.n,
                                      result |-> ReturnedAt(call)]]
         /\ now' = LastReading(clock, call.n)
  /\ UNCHANGED <<templates, helpers, rendered, arg, res>>

\* render(compiled) of the value the first call of compile returned
RenderAt ==
  /\ compiled # None
  /\ compiled.result.status = "ok"
  /\ rendered = None
  /\ \E clock \in Clocks(now, MaxReadings) :
       \E call \in {renderAt(heap, helpers, compiled.result.r, clock)} :
         /\ heap' = call.h
         /\ rendered' = Rendered(call.text)
         /\ now' = LastReading(clock, call.n)
  /\ UNCHANGED <<templates, helpers, compiled, arg, res>>

Next ==
  \/ \E t \in TemplateRefs : RegisterAt(t)
  \/ \E t \in TemplateRefs, c \in ContextRefs : CompileAt(t, c)
  \/ RecompileAt
  \/ RenderAt
  \/ Tick

Spec == InitHeap /\ [][Next]_vars

(***************************************************************************)
(* The engine on variable schemas: a parent p is registered, and a         *)
(* template that extends p or nothing is compiled                          *)
(***************************************************************************)
N_a == <<"a">>

N_b == <<"b">>

N_c == <<"c">>

S_label == <<"L">>

\* the variable definitions of name
DefsOf(name) ==
  { [name |-> name, required |-> Bool(TRUE)],
    [name |-> name, label |-> Str(S_label \o name), type |-> Str(<<"t","e","x","t">>)],
    [name |-> name, default |-> Str(<<"d">> \o name)],
    [name |-> name, default |-> Null, required |-> Bool(TRUE), label |-> Str(<<"M">>)] }

\* the greatest number of variables a template declares
MaxDefs == 2

\* the sequences of at most n elements of S
SeqsUpTo(S, n) == UNION {[1..k -> S] : k \in 0..n}

DistinctBy(list, key) ==
  \A i, j \in 1..Len(list) : list[i][key] = list[j][key] => i = j

\* the variable schemas: names are unique within a schema
Schemas(names) ==
  {d \in SeqsUpTo(UNION {DefsOf(n) : n \in names}, MaxDefs) : DistinctBy(d, "name")}

VarTemplate(id, defs, ext) ==
  IF ext = <<>>
  THEN [meta |-> [id |-> id, name |-> id], variables |-> defs, sections |-> <<>>]
  ELSE [meta |-> [id |-> id, name |-> id], variables |-> defs, sections |-> <<>>,
        extends |-> ext]

VarParents == {VarTemplate(<<"p">>, d, <<>>) : d \in Schemas({N_a, N_c})}

\* the child declares, among others, a variable under a name that
\* Object.prototype has
VarChildren ==
  {VarTemplate(<<"c">>, d, e) :
     d \in Schemas({N_a, N_b, N_c, N_constructor}), e \in {<<>>, <<"p">>}}

N_z == <<"z">>

VarContexts ==
  {[variables |-> m] :
     m \in { <<>>,
             << [k |-> N_z, v |-> Num(1)], [k |-> N_a, v |-> Null] >>,
             << [k |-> N_z, v |-> Bool(FALSE)], [k |-> N_b, v |-> Num(2)],
                [k |-> N_a, v |-> Str(<<"A">>)], [k |-> N_c, v |-> Str(<<>>)] >>,
             << [k |-> N_toString, v |-> Num(3)], [k |-> N_b, v |-> Num(0 - 999999)] >> }}

NextVariables ==
  \/ \E t \in VarParents : RegisterTemplate(t)
  \/ \E t \in VarChildren, c \in VarContexts : Compile(t, c)
  \/ Discard

SpecVariables == InitEngine /\ [][NextVariables]_vars

(***************************************************************************)
(* The engine on section trees: a parent p is registered, and a template   *)
(* that extends p or nothing is compiled                                   *)
(***************************************************************************)
N_hasAuth == <<"h","a","s","A","u","t","h">>

CondAuth == [variable |-> N_hasAuth, operator |-> O_equals, value |-> Bool(TRUE)]

CondNoAuth == [variable |-> N_hasAuth, operator |-> O_not_exists]

Leaf(id, title) == [id |-> id, title |-> title, content |-> <<"C">>]

\* the sections of id: a plain one; one with nested sections out of order;
\* one with a condition, whose nested section has a condition of its own;
\* one that gives only a title and an order
SectionsOf(id) ==
  { Leaf(id, <<"T">> \o id),
    Leaf(id, <<"U">>) @@
      [order |-> Num(2),
       sections |-> << Leaf(<<"m">>, <<"M">>) @@ [order |-> Num(1), condition |-> CondAuth],
                       Leaf(<<"n">>, <<"N">>) >>],
    Leaf(id, <<"V">>) @@
      [order |-> Num(1), condition |-> CondAuth,
       sections |-> << Leaf(<<"n">>, <<"W">>) @@ [order |-> Num(0 - 1), condition |-> CondNoAuth],
                       Leaf(<<"k">>, <<"K">>) @@ [order |-> Num(0 - 1)] >>],
    [id |-> id, title |-> <<"Z">>, order |-> Num(0 - 1)] }

\* the greatest number of sections of a section list of a template
MaxSections == 2

\* the section lists: ids are unique within a list
SectionLists(ids) ==
  {l \in SeqsUpTo(UNION {SectionsOf(i) : i \in ids}, MaxSections) : DistinctBy(l, "id")}

SecTemplate(id, sections, ext) ==
  IF ext = <<>>
  THEN [meta |-> [id |-> id, name |-> id], variables |-> <<>>, sections |-> sections]
  ELSE [meta |-> [id |-> id, name |-> id], variables |-> <<>>, sections |-> sections,
        extends |-> ext]

SecParents == {SecTemplate(<<"p">>, l, <<>>) : l \in SectionLists({<<"s">>, <<"t">>})}

SecChildren ==
  {SecTemplate(<<"c">>, l, e) :
     l \in SectionLists({<<"s">>, <<"t">>, <<"u">>}), e \in {<<>>, <<"p">>}}

SecContexts ==
  {[variables |-> m] :
     m \in { <<>>, << [k |-> N_hasAuth, v |-> Bool(TRUE)] >>,
             << [k |-> N_hasAuth, v |-> Bool(FALSE)] >> }}

NextSections ==
  \/ \E t \in SecParents : RegisterTemplate(t)
  \/ \E t \in SecChildren, c \in SecContexts : Compile(t, c)
  \/ Discard

SpecSections == InitEngine /\ [][NextSections]_vars

(***************************************************************************)
(* The engine on chains of templates: templates a, b and c, each extending *)
(* nothing, one of the three, or an id that is never registered            *)
(***************************************************************************)
S_nope == <<"n","o","p","e">>

\* the variables, sections and prompts of the templates a, b and c: the
\* sections of c are declared out of order, b has no prompts
InhBody(id) ==
  CASE id = N_a ->
         [meta |-> [id |-> N_a, name |-> <<"A">>, author |-> <<"w">>],
          variables |-> << [name |-> N_x, default |-> Str(<<"1">>)],
                           [name |-> <<"p">>, label |-> Str(<<"P">>)] >>,
          sections |-> << [id |-> <<"s">>, title |-> <<"S","a">>],
                          [id |-> <<"t">>, title |-> <<"T">>, content |-> Ref(N_x),
                           order |-> Num(1)] >>,
          prompts |-> << <<"p","a">> >>]
    [] id = N_b ->
         [meta |-> [id |-> N_b, name |-> <<"B">>, description |-> <<"d">>],
          variables |-> << [name |-> <<"q">>, default |-> Num(2)],
                           [name |-> N_x, label |-> Str(<<"X">>)] >>,
          sections |-> << [id |-> <<"u">>, title |-> <<"U">>, content |-> <<"u">>],
                          [id |-> <<"s">>, title |-> <<"S","b">>, content |-> <<"b">>,
                           order |-> Num(0 - 1),
                           sections |-> << Leaf(<<"m">>, <<"M">>) >>] >>]
    [] id = N_c ->
         [meta |-> [id |-> N_c, name |-> <<"C">>, description |-> <<"e">>,
                    author |-> <<"v">>],
          variables |-> << [name |-> N_x, default |-> Str(<<"3">>), type |-> Str(<<"T">>)],
                           [name |-> <<"r">>, default |-> Bool(TRUE)] >>,
          sections |-> << [id |-> <<"s">>, title |-> <<"S","c">>, content |-> <<"c">>,
                          order |-> Num(3),
                          sections |-> << Leaf(<<"n">>, <<"N">>) @@ [order |-> Num(1)],
                                          Leaf(<<"m">>, <<"K">>) >>],
                          [id |-> <<"v">>, title |-> <<"V">>, content |-> <<"v">>,
                           order |-> Num(0 - 1)] >>,
          prompts |-> << <<"p","c">>, <<"q","c">> >>]

\* the template of id that extends ext, ext = <<>> for no extends
InhTemplate(id, ext) == IF ext = <<>> THEN InhBody(id) ELSE InhBody(id) @@ [extends |-> ext]

InhIds == {N_a, N_b, N_c}

InhTemplates == {InhTemplate(id, ext) : id \in InhIds, ext \in InhIds \cup {<<>>, S_nope}}

InhContexts == {[variables |-> <<>>], [variables |-> << [k |-> N_x, v |-> Num(7)] >>]}

NextInheritance ==
  \/ \E t \in InhTemplates : RegisterTemplate(t)
  \/ \E t \in InhTemplates, c \in InhContexts : Compile(t, c)
  \/ Discard

SpecInheritance == InitEngine /\ [][NextInheritance]_vars

(***************************************************************************)
(* The engine on conditions: one section under a condition on the variable *)
(* v, for every operator, comparand and value of v                         *)
(***************************************************************************)
N_v == <<"v">>

S_cond == <<"s">>

CondOperators ==
  {O_equals, O_not_equals, O_contains, O_not_contains, O_greater_than, O_less_than,
   O_exists, O_not_exists, O_matches}

\* an array the caller holds in the mapping and in the condition, and an
\* array of the same content held in one place
V_held == Shared(Arr(<<Str(<<"a">>)>>), 1)

V_alike == Arr(<<Str(<<"a">>)>>)

S_m999999 == <<"-","9","9","9","9","9","9">>

\* the comparands: strings, numbers, NaN among them, null, a boolean, arrays
\* and an object without primitive value
CondComparands ==
  {Str(<<"a">>), Str(<<>>), Str(<<"1">>), Num(1), Null, Bool(TRUE), V_held, V_alike,
   Num(0 - 999999), Str(S_m999999), NaN, V_noPrimitive}

\* the values of v a caller provides: strings, numbers, NaN among them,
\* booleans, null, undefined and arrays
CondValues ==
  {Undef, Null, Str(<<>>), Str(<<"a","b">>), Str(<<"a","1">>), Str(<<"n","u","l","l">>),
   Str(<<"x">> \o S_m999999), Num(0), Num(1), Num(0 - 999999), Num(0 - 1000000), NaN,
   Bool(FALSE), Bool(TRUE), Arr(<<>>), Arr(<<Str(<<"a">>), Num(1)>>),
   Arr(<<Null, Str(<<>>)>>), Arr(<<NaN, Num(0 - 999999)>>), V_held, Arr(<<Num(1), V_held>>)}

\* the variables of the conditions: v, and a name that Object.prototype has
CondVariables == {N_v, N_constructor}

\* the conditions: an operator on a variable, with or without a comparand
Conditions ==
  {[variable |-> n, operator |-> op] : n \in CondVariables, op \in CondOperators}
    \cup {[variable |-> n, operator |-> op, value |-> cv] :
            n \in CondVariables, op \in CondOperators, cv \in CondComparands}

CondTemplate(condition) ==
  [meta |-> [id |-> <<"q">>, name |-> <<"Q">>],
   variables |-> <<>>,
   sections |-> << Leaf(S_cond, <<"S">>) @@ [condition |-> condition],
                   Leaf(<<"k">>, <<"K">>) >>]

\* the caller's mappings: empty, with one value of v, or with a value under
\* the other name
CondContexts ==
  {[variables |-> <<>>], [variables |-> << [k |-> N_constructor, v |-> Str(<<"a","b">>)] >>]}
    \cup {[variables |-> << [k |-> N_v, v |-> x] >>] : x \in CondValues}

NextConditions ==
  \/ \E c \in Conditions, x \in CondContexts : Compile(CondTemplate(c), x)
  \/ Discard

SpecConditions == InitEngine /\ [][NextConditions]_vars

(***************************************************************************)
(* The engine on nested sections: a chain of sections, one inside the      *)
(* other, followed by a section under a condition that has a child         *)
(***************************************************************************)
\* the greatest nesting depth of the chain
MaxDepth == 6

\* the contents of a section: empty, blank, and text between blanks
RenderContents == {<<>>, <<" ", "\n">>, <<" ", "C", "\n">>}

\* the chain of sections with the contents cs, the first at nesting depth d
\* and titled with d letters
RECURSIVE NestList(_, _)
NestList(cs, d) ==
  IF cs = <<>> THEN <<>>
  ELSE << [id |-> <<"n">>, title |-> [i \in 1..d |-> "T"], content |-> cs[1],
           sections |-> NestList(Tail(cs), d + 1)] >>

RenderTemplate(cs) ==
  [meta |-> [id |-> <<"r">>, name |-> <<"D", " ">> \o Ref(N_v)],
   variables |-> <<>>,
   sections |-> NestList(cs, 1)
                  \o << [id |-> <<"o">>, title |-> <<"O">>, content |-> <<"\t">>,
                         condition |-> [variable |-> N_v, operator |-> O_exists],
                         sections |-> << Leaf(<<"k">>, <<"K">>) >>] >>]

RenderTemplates == {RenderTemplate(cs) : cs \in SeqsUpTo(RenderContents, MaxDepth)}

RenderContexts == {[variables |-> <<>>], [variables |-> << [k |-> N_v, v |-> Num(7)] >>]}

NextRender ==
  \/ \E t \in RenderTemplates, c \in RenderContexts : Compile(t, c)
  \/ RenderCompiled
  \/ Discard

SpecRender == InitEngine /\ [][NextRender]_vars

(***************************************************************************)
(* The loader: validate and normalise the data parsed from a template file *)
(* (loader.ts).  The data are JavaScript values; the template returned has *)
(* the engine's shape: texts for the fields made with String, values for   *)
(* the fields passed through                                               *)
(***************************************************************************)
F_meta == <<"m","e","t","a">>

F_variables == <<"v","a","r","i","a","b","l","e","s">>

F_sections == <<"s","e","c","t","i","o","n","s">>

F_extends == <<"e","x","t","e","n","d","s">>

F_id == <<"i","d">>

F_name == <<"n","a","m","e">>

F_description == <<"d","e","s","c","r","i","p","t","i","o","n">>

F_version == <<"v","e","r","s","i","o","n">>

F_category == <<"c","a","t","e","g","o","r","y">>

F_scope == <<"s","c","o","p","e">>

F_author == <<"a","u","t","h","o","r">>

F_audience == <<"a","u","d","i","e","n","c","e">>

F_tags == <<"t","a","g","s">>

F_license == <<"l","i","c","e","n","s","e">>

F_label == <<"l","a","b","e","l">>

F_type == <<"t","y","p","e">>

F_default == <<"d","e","f","a","u","l","t">>

F_required == <<"r","e","q","u","i","r","e","d">>

F_options == <<"o","p","t","i","o","n","s">>

F_pattern == <<"p","a","t","t","e","r","n">>

F_min == <<"m","i","n">>

F_max == <<"m","a","x">>

F_title == <<"t","i","t","l","e">>

F_content == <<"c","o","n","t","e","n","t">>

F_order == <<"o","r","d","e","r">>

F_collapsible == <<"c","o","l","l","a","p","s","i","b","l","e">>

F_prompt == <<"p","r","o","m","p","t">>

F_condition == <<"c","o","n","d","i","t","i","o","n">>

F_variable == <<"v","a","r","i","a","b","l","e">>

F_operator == <<"o","p","e","r","a","t","o","r">>

F_value == <<"v","a","l","u","e">>

F_prompts == <<"p","r","o","m","p","t","s">>

F_section == <<"s","e","c","t","i","o","n">>

F_system == <<"s","y","s","t","e","m">>

F_user == <<"u","s","e","r">>

F_model == <<"m","o","d","e","l">>

F_temperature == <<"t","e","m","p","e","r","a","t","u","r","e">>

F_maxTokens == <<"m","a","x","T","o","k","e","n","s">>

S_string == <<"s","t","r","i","n","g">>

\* data[field] where data is neither null nor undefined: a value that is no
\* object has none of the fields
Field(data, field) == IF data.t = "obj" THEN Lookup(data.o, field) ELSE Undef

\* a property read on null or undefined throws a TypeError
NoFields(data) == data.t \in {"undef", "null"}

\* what the read of field on null or undefined throws
ReadError(data, field) ==
  [ok |-> FALSE, error |-> "TypeError: Cannot read properties", of |-> data.t, field |-> field]

\* what data.map throws on a value that is no array
MapError == [ok |-> FALSE, error |-> "TypeError: data.map is not a function"]

\* x ? String(x) : undefined
StringOrUndef(x) == IF Falsy(x) THEN Undef ELSE Str(ToStr(x))

\* what String(x) throws for a value without primitive value
ConversionError == [ok |-> FALSE, error |-> PrimitiveErrorMark]

\* the fields validateMeta converts to strings
ConvertedMeta == <<F_id, F_name, F_description, F_version, F_category, F_author, F_license>>

\* the fields validateMeta requires, in the order it checks them
RequiredMeta == <<F_id, F_name, F_description, F_version, F_category, F_scope>>

\* the first required field of data that is missing, 0 when there is none
FirstMissingMeta(data) ==
  FirstOf({i \in 1..Len(RequiredMeta) : Falsy(Field(data, RequiredMeta[i]))})

validateMeta(data) ==
  IF FirstMissingMeta(data) # 0
  THEN [ok |-> FALSE, error |-> "Invalid template meta", field |-> RequiredMeta[FirstMissingMeta(data)]]
  ELSE IF \E i \in 1..Len(ConvertedMeta) : Unconverted(Field(data, ConvertedMeta[i]))
  THEN ConversionError
  ELSE [ok |-> TRUE,
        value |-> [id |-> ToStr(Field(data, F_id)),
                   name |-> ToStr(Field(data, F_name)),
                   description |-> ToStr(Field(data, F_description)),
                   version |-> ToStr(Field(data, F_version)),
                   category |-> ToStr(Field(data, F_category)),
                   scope |-> Field(data, F_scope),
                   author |-> StringOrUndef(Field(data, F_author)),
                   audience |-> Field(data, F_audience),
                   tags |-> Field(data, F_tags),
                   license |-> StringOrUndef(Field(data, F_license))]]

\* the callback of data.map in validateVariables, for a variable with a name
NormalVariable(v) ==
  [name |-> ToStr(Field(v, F_name)),
   label |-> Str(ToStr(OrElse(Field(v, F_label), Field(v, F_name)))),
   type |-> OrElse(Field(v, F_type), Str(S_string)),
   default |-> Field(v, F_default),
   required |-> Bool(~Falsy(Field(v, F_required))),
   description |-> StringOrUndef(Field(v, F_description)),
   options |-> Field(v, F_options),
   pattern |-> StringOrUndef(Field(v, F_pattern)),
   min |-> Field(v, F_min),
   max |-> Field(v, F_max)]

\* a conversion of the callback throws: String(v.name),
\* String(v.label || v.name), String(v.description) or String(v.pattern)
UnconvertedVariable(v) ==
  \/ Unconverted(Field(v, F_name))
  \/ Unconverted(OrElse(Field(v, F_label), Field(v, F_name)))
  \/ Unconverted(Field(v, F_description))
  \/ Unconverted(Field(v, F_pattern))

\* validateVariables: data.map throws at the first variable without a name or
\* with a field that cannot be converted
RECURSIVE validateVariablesFrom(_, _)
validateVariablesFrom(data, i) ==
  IF i > Len(data) THEN [ok |-> TRUE, value |-> <<>>]
  ELSE IF NoFields(data[i]) THEN ReadError(data[i], F_name)
  ELSE IF Falsy(Field(data[i], F_name))
  THEN [ok |-> FALSE, error |-> "Invalid variable", index |-> i - 1, field |-> F_name]
  ELSE IF UnconvertedVariable(data[i]) THEN ConversionError
  ELSE (LET rest == validateVariablesFrom(data, i + 1) IN
        IF rest.ok THEN [ok |-> TRUE, value |-> <<NormalVariable(data[i])>> \o rest.value]
        ELSE rest)

\* validateVariables(data): data is the value handed over, (data.variables || [])
validateVariables(data) ==
  IF data.t # "arr" THEN MapError ELSE validateVariablesFrom(data.a, 1)

\* the condition of a section as validateSections copies it
NormalCondition(cond) ==
  [variable |-> ToStr(Field(cond, F_variable)),
   operator |-> Field(cond, F_operator),
   value |-> Field(cond, F_value)]

\* the section validateSections builds before it looks at nested sections
NormalSection(s) ==
  [id |-> ToStr(Field(s, F_id)),
   title |-> ToStr(Field(s, F_title)),
   content |-> ToStr(OrElse(Field(s, F_content), Str(<<>>))),
   order |-> Field(s, F_order),
   collapsible |-> Field(s, F_collapsible),
   prompt |-> StringOrUndef(Field(s, F_prompt))]
    @@ (IF Falsy(Field(s, F_condition)) THEN <<>>
        ELSE [condition |-> NormalCondition(Field(s, F_condition))])

\* a conversion of the callback throws: String(s.id), String(s.title),
\* String(s.content || ''), String(s.prompt) or String(cond.variable)
UnconvertedSection(s) ==
  \/ Unconverted(Field(s, F_id))
  \/ Unconverted(Field(s, F_title))
  \/ Unconverted(Field(s, F_content))
  \/ Unconverted(Field(s, F_prompt))
  \/ ~Falsy(Field(s, F_condition)) /\ Unconverted(Field(Field(s, F_condition), F_variable))

\* validateSections: data.map throws at the first section, nested sections of
\* earlier sections included, without an id or without a title, or with a
\* field that cannot be converted
RECURSIVE validateSections(_)
RECURSIVE validateSectionsFrom(_, _)
RECURSIVE ValidSection(_, _)
\* ValidSection without the check of the title
ValidSection_TitleUnchecked(s, index) ==
  IF NoFields(s) THEN ReadError(s, F_id)
  ELSE IF Falsy(Field(s, F_id))
  THEN [ok |-> FALSE, error |-> "Invalid section", index |-> index, field |-> F_id]
  ELSE IF UnconvertedSection(s) THEN ConversionError
  ELSE IF Falsy(Field(s, F_sections)) THEN [ok |-> TRUE, value |-> NormalSection(s)]
  ELSE (LET nested == validateSections(Field(s, F_sections)) IN
        IF nested.ok
        THEN [ok |-> TRUE, value |-> NormalSection(s) @@ [sections |-> nested.value]]
        ELSE nested)

ValidSection(s, index) ==
  IF NoFields(s) THEN ReadError(s, F_id)
  ELSE IF Falsy(Field(s, F_id))
  THEN [ok |-> FALSE, error |-> "Invalid section", index |-> index, field |-> F_id]
  ELSE IF Falsy(Field(s, F_title))
  THEN [ok |-> FALSE, error |-> "Invalid section", index |-> index, field |-> F_title]
  ELSE IF UnconvertedSection(s) THEN ConversionError
  ELSE IF Falsy(Field(s, F_sections)) THEN [ok |-> TRUE, value |-> NormalSection(s)]
  ELSE (LET nested == validateSections(Field(s, F_sections)) IN
        IF nested.ok
        THEN [ok |-> TRUE, value |-> NormalSection(s) @@ [sections |-> nested.value]]
        ELSE nested)

validateSectionsFrom(data, i) ==
  IF i > Len(data) THEN [ok |-> TRUE, value |-> <<>>]
  ELSE (LET first == ValidSection(data[i], i - 1) IN
        IF ~first.ok THEN first
        ELSE (LET rest == validateSectionsFrom(data, i + 1) IN
              IF rest.ok THEN [ok |-> TRUE, value |-> <<first.value>> \o rest.value]
              ELSE rest))

\* validateSections(data): data is the value handed over
validateSections(data) ==
  IF data.t # "arr" THEN MapError ELSE validateSectionsFrom(data.a, 1)

\* (data.variables as ...) || [] and (data.sections as ...) || []
ListOrEmpty(data, field) ==
  IF Falsy(Field(data, field)) THEN Arr(<<>>) ELSE Field(data, field)

\* the callback of data.prompts.map
NormalPrompt(p) ==
  [id |-> ToStr(Field(p, F_id)),
   section |-> ToStr(Field(p, F_section)),
   system |-> StringOrUndef(Field(p, F_system)),
   user |-> ToStr(Field(p, F_user)),
   model |-> Field(p, F_model),
   temperature |-> Field(p, F_temperature),
   maxTokens |-> Field(p, F_maxTokens)]

\* a conversion of the callback throws: String(p.id), String(p.section),
\* String(p.system) or String(p.user)
UnconvertedPrompt(p) ==
  \/ Unconverted(Field(p, F_id))
  \/ Unconverted(Field(p, F_section))
  \/ Unconverted(Field(p, F_system))
  \/ Unconverted(Field(p, F_user))

\* the callback of data.prompts.map throws for p
PromptThrows(p) == NoFields(p) \/ UnconvertedPrompt(p)

\* what the first prompt of a list that throws makes the callback throw
FirstPromptError(p) == IF NoFields(p) THEN ReadError(p, F_id) ELSE ConversionError

\* data.prompts.map(p => ...): throws on a value that is no array and at the
\* first prompt that is null or undefined or has a field that cannot be
\* converted
validatePrompts(data) ==
  IF data.t # "arr" THEN MapError
  ELSE IF \E i \in 1..Len(data.a) : PromptThrows(data.a[i])
  THEN FirstPromptError(data.a[FirstOf({i \in 1..Len(data.a) : PromptThrows(data.a[i])})])
  ELSE [ok |-> TRUE, value |-> [i \in 1..Len(data.a) |-> NormalPrompt(data.a[i])]]

\* validate after the three parts passed: the template, with extends when the
\* data name a parent and with prompts when the data have any
ValidTemplate(data, meta, variables, sections) ==
  [status |-> "ok",
   template |-> [meta |-> meta, variables |-> variables, sections |-> sections]
                  @@ (IF Falsy(Field(data, F_extends)) THEN <<>>
                      ELSE [extends |-> ToStr(Field(data, F_extends))])
                  @@ (IF Falsy(Field(data, F_prompts)) THEN <<>>
                      ELSE [prompts |-> validatePrompts(Field(data, F_prompts)).value])]

\* what a failed part makes validate throw
ValidateError(r) == [status |-> "error"] @@ [f \in DOMAIN r \ {"ok"} |-> r[f]]

\* validate(data): the normalised template, or the error of the first part
\* that fails: meta, then variables, then sections
validate(data) ==
  IF NoFields(data) THEN ValidateError(ReadError(data, F_meta))
  ELSE IF Falsy(Field(data, F_meta)) \/ Field(data, F_meta).t \notin {"obj", "arr"}
  THEN [status |-> "error", error |-> "Invalid template: missing meta section"]
  ELSE IF ~validateMeta(Field(data, F_meta)).ok
  THEN ValidateError(validateMeta(Field(data, F_meta)))
  ELSE IF ~validateVariables(ListOrEmpty(data, F_variables)).ok
  THEN ValidateError(validateVariables(ListOrEmpty(data, F_variables)))
  ELSE IF ~validateSections(ListOrEmpty(data, F_sections)).ok
  THEN ValidateError(validateSections(ListOrEmpty(data, F_sections)))
  ELSE IF Unconverted(Field(data, F_extends)) THEN ValidateError(ConversionError)
  ELSE IF ~Falsy(Field(data, F_prompts)) /\ ~validatePrompts(Field(data, F_prompts)).ok
  THEN ValidateError(validatePrompts(Field(data, F_prompts)))
  ELSE ValidTemplate(data,
                     validateMeta(Field(data, F_meta)).value,
                     validateVariables(ListOrEmpty(data, F_variables)).value,
                     validateSections(ListOrEmpty(data, F_sections)).value)

(***************************************************************************)
(* The data the loader is given                                            *)
(***************************************************************************)
\* an object from its fields, a field with an undefined value left out
ObjOf(fields) == Obj(SelectSeq(fields, LAMBDA e : e.v # Undef))

FullMeta ==
  << [k |-> F_id, v |-> Str(<<"t">>)], [k |-> F_name, v |-> Str(<<"N">>)],
     [k |-> F_description, v |-> Str(<<"d">>)], [k |-> F_version, v |-> Num(1)],
     [k |-> F_category, v |-> Str(<<"c">>)], [k |-> F_scope, v |-> Str(<<"m","v","p">>)],
     [k |-> F_author, v |-> Str(<<"w">>)] >>

S_enterprise == <<"e","n","t","e","r","p","r","i","s","e">>

S_huge == <<"h","u","g","e">>

\* the meta sections: complete, one field left out, one field present with an
\* empty or zero value, a meta that is a string, and a scope of the enumeration
\* and one outside it
MetaData ==
  {Obj(FullMeta), Str(<<"x">>), Undef}
    \cup {Obj([i \in 1..Len(FullMeta) |->
                 IF FullMeta[i].k = F_scope THEN [k |-> F_scope, v |-> x] ELSE FullMeta[i]]) :
            x \in {Str(S_enterprise), Str(S_huge)}}
    \cup {Obj(SelectSeq(FullMeta, LAMBDA e : e.k # f)) : f \in {RequiredMeta[i] : i \in 1..6}}
    \cup {Obj([i \in 1..Len(FullMeta) |->
                 IF FullMeta[i].k = f THEN [k |-> f, v |-> x] ELSE FullMeta[i]]) :
            f \in {F_name, F_version}, x \in {Str(<<>>), Num(0)}}

V_named ==
  Obj(<< [k |-> F_name, v |-> Str(<<"x">>)], [k |-> F_default, v |-> Num(0)],
         [k |-> F_required, v |-> Str(<<"y">>)] >>)

V_unnamed == Obj(<< [k |-> F_label, v |-> Str(<<"L">>)] >>)

V_emptyName == Obj(<< [k |-> F_name, v |-> Str(<<>>)], [k |-> F_label, v |-> Str(<<"L">>)] >>)

VariablesData ==
  {Undef, Arr(<<>>), Arr(<<V_named>>), Arr(<<V_named, V_unnamed>>),
   Arr(<<V_emptyName, V_unnamed>>), Arr(<<V_named, V_named, V_emptyName>>)}

\* a section from its id, title and nested sections, each possibly undefined
SectionData(id, title, nested) ==
  ObjOf(<< [k |-> F_id, v |-> id], [k |-> F_title, v |-> title],
           [k |-> F_content, v |-> Num(7)], [k |-> F_sections, v |-> nested] >>)

D_leaf == SectionData(Str(<<"b">>), Str(<<"B">>), Undef)

D_noId == SectionData(Undef, Str(<<"B">>), Undef)

D_noTitle == SectionData(Str(<<"b">>), Str(<<>>), Undef)

D_nothing == SectionData(Undef, Undef, Arr(<<D_noTitle>>))

SectionsData ==
  {Undef, Arr(<<>>), Arr(<<D_leaf>>), Arr(<<D_noId>>), Arr(<<D_leaf, D_noTitle>>),
   Arr(<<D_nothing>>),
   Arr(<<SectionData(Str(<<"a">>), Str(<<"A">>), Arr(<<D_leaf, D_leaf>>)), D_leaf>>),
   Arr(<<SectionData(Str(<<"a">>), Str(<<"A">>), Arr(<<D_leaf, D_noTitle>>)), D_noId>>),
   Arr(<<D_leaf,
         SectionData(Str(<<"a">>), Str(<<"A">>),
                     Arr(<<SectionData(Str(<<"c">>), Str(<<"C">>), Arr(<<D_leaf, D_leaf, D_noId>>))>>)),
         D_noTitle>>),
   Arr(<<SectionData(Str(<<"a">>), Num(0), Arr(<<D_noId>>))>>)}

\* a template file without extends and prompts, or with both
ExtrasData ==
  {<< >>,
   << [k |-> F_extends, v |-> Str(<<"p">>)],
      [k |-> F_prompts,
       v |-> Arr(<< Obj(<< [k |-> F_id, v |-> Num(1)], [k |-> F_section, v |-> Str(<<"b">>)],
                           [k |-> F_user, v |-> Str(<<"u">>)] >>) >>)] >>}

LoaderData ==
  {ObjOf(<< [k |-> F_meta, v |-> m], [k |-> F_variables, v |-> vs],
            [k |-> F_sections, v |-> ss] >> \o e) :
     m \in MetaData, vs \in VariablesData, ss \in SectionsData, e \in ExtrasData}

(***************************************************************************)
(* Paths (path.posix of Node.js).  A path is the text of its characters.   *)
(***************************************************************************)
S_dot == <<".">>

S_dotdot == <<".", ".">>

RECURSIVE SegmentsFrom(_, _)
\* the name that ends before index j, if it has a character, and the names
\* after the slash at j
SegmentTo(path, i, j) ==
  (IF j > i THEN <<SubSeq(path, i, j - 1)>> ELSE <<>>) \o SegmentsFrom(path, j + 1)

\* the names between the slashes of a path, from index i on
SegmentsFrom(path, i) ==
  IF i > Len(path) THEN <<>> ELSE SegmentTo(path, i, FindClass(path, i, {"/"}))

\* normalizeString: a dot is dropped, two dots take the name before them
\* away; above the start of a relative path they stay, above the root they
\* are dropped
RECURSIVE NormalSegments(_, _, _, _)
NormalSegments(segs, i, out, abs) ==
  IF i > Len(segs) THEN out
  ELSE IF segs[i] = S_dot THEN NormalSegments(segs, i + 1, out, abs)
  ELSE IF segs[i] # S_dotdot THEN NormalSegments(segs, i + 1, Append(out, segs[i]), abs)
  ELSE IF Len(out) > 0 /\ out[Len(out)] # S_dotdot
  THEN NormalSegments(segs, i + 1, SubSeq(out, 1, Len(out) - 1), abs)
  ELSE IF abs THEN NormalSegments(segs, i + 1, out, abs)
  ELSE NormalSegments(segs, i + 1, Append(out, S_dotdot), abs)

\* the normalised path from its names: the leading and the trailing slash are
\* kept
Assemble(body, abs, trailing) ==
  IF body = <<>> THEN (IF abs THEN <<"/">> ELSE IF trailing THEN <<".", "/">> ELSE S_dot)
  ELSE (IF abs THEN <<"/">> ELSE <<>>) \o body \o (IF trailing THEN <<"/">> ELSE <<>>)

\* path.normalize
normalize(path) ==
  IF path = <<>> THEN S_dot
  ELSE Assemble(JoinText(NormalSegments(SegmentsFrom(path, 1), 1, <<>>, StartsWith(path, "/")),
                         <<"/">>),
                StartsWith(path, "/"), EndsWith(path, "/"))

\* path.join(a, b)
join(a, b) ==
  IF a = <<>> /\ b = <<>> THEN S_dot
  ELSE normalize(IF a = <<>> THEN b ELSE IF b = <<>> THEN a ELSE a \o <<"/">> \o b)

(***************************************************************************)
(* The file system (fs of Node.js).  A file is its name and the value      *)
(* js-yaml parses its text to, Unparsable for a text js-yaml rejects; a    *)
(* directory is its name and the list of its entries in the order          *)
(* readdirSync gives them, with names that differ; a link is a symbolic    *)
(* link to nowhere, which readdirSync lists and nothing else finds.  A     *)
(* link to a file is that file.  Outside the model: links to directories,  *)
(* and files and directories the process may not read.                     *)
(***************************************************************************)
Missing == [kind |-> "missing"]

File(name, data) == [kind |-> "file", name |-> name, data |-> data]

Dir(name, entries) == [kind |-> "dir", name |-> name, entries |-> entries]

Link(name) == [kind |-> "link", name |-> name]

Unparsable == [t |-> "unparsable"]

\* the index of the entry of that name, 0 when there is none
EntryNamed(entries, name) == FirstOf({k \in 1..Len(entries) : entries[k].name = name})

\* the directory above the one the walk is in: the root is above itself
Above(stack) == IF Len(stack) > 1 THEN SubSeq(stack, 1, Len(stack) - 1) ELSE stack

RECURSIVE NodeAt(_, _, _)
\* the walk goes on in entry k of the directory it is in
Descend(stack, segs, i, k) ==
  IF k = 0 THEN Missing
  ELSE NodeAt(Append(stack, stack[Len(stack)].entries[k]), segs, i + 1)

\* what the walk along the names from index i on ends at, every name read as
\* it is written: stack holds the root and the directories entered, the last
\* being where the walk is.  A name is looked up in a directory only, a dot
\* stays there, two dots go to the directory above
NodeAt(stack, segs, i) ==
  IF i > Len(segs) THEN stack[Len(stack)]
  ELSE IF stack[Len(stack)].kind # "dir" THEN Missing
  ELSE IF segs[i] = S_dot THEN NodeAt(stack, segs, i + 1)
  ELSE IF segs[i] = S_dotdot THEN NodeAt(Above(stack), segs, i + 1)
  ELSE Descend(stack, segs, i, EntryNamed(stack[Len(stack)].entries, segs[i]))

\* a path that ends with a slash finds directories only
Found(node, trailing) == IF trailing /\ node.kind # "dir" THEN Missing ELSE node

\* the names the file system walks for a path: those of the working
\* directory of the process first when the path is relative
NamesOf(loader, path) ==
  (IF StartsWith(path, "/") THEN <<>> ELSE SegmentsFrom(loader.cwd, 1))
    \o SegmentsFrom(path, 1)

\* what the file system has at a path: nothing at the empty path
NodeOf(loader, path) ==
  IF path = <<>> THEN Missing
  ELSE Found(NodeAt(<<loader.files>>, NamesOf(loader, path), 1), EndsWith(path, "/"))

\* existsSync: a link to nowhere does not exist
Exists(node) == node.kind \in {"file", "dir"}

\* readdirSync(fullPath) on a directory
readdirSync(node) == [k \in 1..Len(node.entries) |-> node.entries[k].name]

(***************************************************************************)
(* Loading batches (loader.ts)                                             *)
(***************************************************************************)
\* new TemplateLoader(basePath) in a process whose working directory is cwd,
\* on the files of the file system; the empty basePath is no basePath
TemplateLoader(files, cwd, basePath) ==
  [files |-> files, cwd |-> cwd, basePath |-> IF basePath = <<>> THEN cwd ELSE basePath]

resolvePath(loader, filePath) ==
  IF StartsWith(filePath, "/") THEN filePath ELSE join(loader.basePath, filePath)

\* path.extname: from the last dot of the name on, empty when the name has no
\* dot after its first character
extname(filename) ==
  IF {i \in 2..Len(filename) : filename[i] = "."} = {} THEN <<>>
  ELSE SubSeq(filename,
              CHOOSE i \in 2..Len(filename) :
                filename[i] = "." /\ \A j \in (i + 1)..Len(filename) : filename[j] # ".",
              Len(filename))

isTemplateFile(filename) ==
  toLowerCase(extname(filename)) \in {<<".","y","a","m","l">>, <<".","y","m","l">>}

\* parse(content): the template of the value yaml.load gives, or the error
\* thrown
parse(data) ==
  IF data = Unparsable THEN [status |-> "error", error |-> "YAMLException"]
  ELSE validate(data)

\* loadFile once the path is resolved: node is what the file system has there
ReadFile(node) ==
  IF ~Exists(node) THEN [status |-> "error", error |-> "Template file not found"]
  ELSE IF node.kind = "dir"
  THEN [status |-> "error", error |-> "EISDIR: illegal operation on a directory, read"]
  ELSE parse(node.data)

\* loadFile(filePath): the template of the file, or the error thrown
loadFile(loader, filePath) == ReadFile(NodeOf(loader, resolvePath(loader, filePath)))

NothingLoaded == [status |-> "ok", templates |-> <<>>, warned |-> <<>>]

\* templates.push(this.loadFile(filePath)) in try, console.warn in catch: the
\* name of the file is written to the console
Pushed(loaded, file) ==
  IF loaded.status = "ok"
  THEN [status |-> "ok", templates |-> <<loaded.template>>, warned |-> <<>>]
  ELSE [status |-> "ok", templates |-> <<>>, warned |-> <<file>>]

\* what an entry gave, before what the entries after it gave: an error
\* thrown leaves the loop, after the warnings written before it
Collected(head, rest) ==
  IF head.status # "ok" THEN head
  ELSE IF rest.status # "ok" THEN [rest EXCEPT !.warned = head.warned \o @]
  ELSE [status |-> "ok", templates |-> head.templates \o rest.templates,
        warned |-> head.warned \o rest.warned]

RECURSIVE loadDirectoryAt(_, _)
\* the body of the loop for the entry file: stat is what statSync finds at
\* filePath
LoadedEntry(loader, filePath, file, stat) ==
  IF ~Exists(stat)
  THEN [status |-> "error", error |-> "ENOENT: no such file or directory, stat",
        warned |-> <<>>]
  ELSE IF stat.kind = "file" /\ isTemplateFile(file)
  THEN Pushed(loadFile(loader, filePath), file)
  ELSE IF stat.kind = "dir" THEN loadDirectoryAt(loader, resolvePath(loader, filePath))
  ELSE NothingLoaded

\* the body of the loop for the entry file at filePath
EntryAt(loader, filePath, file) ==
  LoadedEntry(loader, filePath, file, NodeOf(loader, filePath))

\* the loop of loadDirectory over the names readdirSync gave, from name i on:
\* the templates collected, and the names of the files whose error was
\* caught and written to the console
RECURSIVE loadEntries(_, _, _, _)
loadEntries(loader, fullPath, files, i) ==
  IF i > Len(files) THEN NothingLoaded
  ELSE Collected(EntryAt(loader, join(fullPath, files[i]), files[i]),
                 loadEntries(loader, fullPath, files, i + 1))

\* loadDirectory once the path is resolved: node is what the file system has
\* at fullPath
ReadDirectory(loader, fullPath, node) ==
  IF ~Exists(node)
  THEN [status |-> "error", error |-> "Template directory not found", warned |-> <<>>]
  ELSE IF node.kind = "file"
  THEN [status |-> "error", error |-> "ENOTDIR: not a directory, scandir", warned |-> <<>>]
  ELSE loadEntries(loader, fullPath, readdirSync(node), 1)

loadDirectoryAt(loader, fullPath) == ReadDirectory(loader, fullPath, NodeOf(loader, fullPath))

\* loadDirectory(dirPath)
loadDirectory(loader, dirPath) == loadDirectoryAt(loader, resolvePath(loader, dirPath))

S_libraryYaml == <<"l","i","b","r","a","r","y",".","y","a","m","l">>

F_templates == <<"t","e","m","p","l","a","t","e","s">>

\* for (const templatePath of library.templates): arrays and strings are
\* iterable, a string by its characters
Iterable(paths) == paths.t \in {"arr", "str"}

Iterated(paths) ==
  IF paths.t = "arr" THEN paths.a ELSE [i \in 1..Len(paths.s) |-> Str(<<paths.s[i]>>)]

\* templates.push(this.loadFile(templateFullPath)), before what the paths
\* after it gave
ListedFile(loaded, rest) ==
  IF loaded.status # "ok" THEN loaded
  ELSE IF rest.status # "ok" THEN rest
  ELSE [status |-> "ok", templates |-> <<loaded.template>> \o rest.templates]

\* the loop of loadLibrary over library.templates, from path i on: the first
\* error leaves it; path.join throws on a path that is no string
RECURSIVE loadListed(_, _, _, _)
loadListed(loader, fullPath, paths, i) ==
  IF i > Len(paths) THEN [status |-> "ok", templates |-> <<>>]
  ELSE IF paths[i].t # "str"
  THEN [status |-> "error", error |-> "TypeError: The path argument must be of type string"]
  ELSE ListedFile(loadFile(loader, join(fullPath, paths[i].s)),
                  loadListed(loader, fullPath, paths, i + 1))

\* { library, templates }, or the error of the loop
Listed(library, listed) ==
  IF listed.status # "ok" THEN listed
  ELSE [status |-> "ok", library |-> library, templates |-> listed.templates]

\* loadLibrary from the value yaml.load gave for library.yaml on
LibraryOf(loader, fullPath, library) ==
  IF NoFields(library)
  THEN [status |-> "error", error |-> "TypeError: Cannot read properties", of |-> library.t,
        field |-> F_templates]
  ELSE IF ~Iterable(Field(library, F_templates))
  THEN [status |-> "error", error |-> "TypeError: library.templates is not iterable"]
  ELSE Listed(library, loadListed(loader, fullPath, Iterated(Field(library, F_templates)), 1))

\* loadLibrary once the path is resolved: node is what the file system has at
\* libraryFile
ReadLibrary(loader, fullPath, node) ==
  IF ~Exists(node) THEN [status |-> "error", error |-> "Library file not found"]
  ELSE IF node.kind = "dir"
  THEN [status |-> "error", error |-> "EISDIR: illegal operation on a directory, read"]
  ELSE IF node.data = Unparsable THEN [status |-> "error", error |-> "YAMLException"]
  ELSE LibraryOf(loader, fullPath, node.data)

loadLibraryAt(loader, fullPath) ==
  ReadLibrary(loader, fullPath, NodeOf(loader, join(fullPath, S_libraryYaml)))

\* loadLibrary(libraryPath)
loadLibrary(loader, libraryPath) == loadLibraryAt(loader, resolvePath(loader, libraryPath))

(***************************************************************************)
(* The files the loader is given                                           *)
(***************************************************************************)
\* a template file's data with the meta id and its sections
FileData(id, sections) ==
  ObjOf(<< [k |-> F_meta,
            v |-> Obj([i \in 1..Len(FullMeta) |->
                         IF FullMeta[i].k = F_id THEN [k |-> F_id, v |-> id] ELSE FullMeta[i]])],
           [k |-> F_variables, v |-> Arr(<<V_named>>)],
           [k |-> F_sections, v |-> sections] >>)

N_aYaml == <<"a",".","y","a","m","l">>

N_cYaml == <<"c",".","y","a","m","l">>

N_dYml == <<"d",".","y","m","l">>

\* two valid template files, one without meta id, one with a section without
\* title, a file that is no template file and a file js-yaml rejects
BatchFiles ==
  {File(N_aYaml, FileData(Str(<<"a">>), Arr(<<D_leaf>>))),
   File(<<"b",".","Y","M","L">>, FileData(Str(<<"b">>), Undef)),
   File(N_cYaml, ObjOf(<< [k |-> F_meta, v |-> Obj(Tail(FullMeta))] >>)),
   File(N_dYml, FileData(Str(<<"d">>), Arr(<<D_leaf, D_noTitle>>))),
   File(<<"e",".","t","x","t">>, Str(<<"x">>)),
   File(<<"u",".","y","a","m","l">>, Unparsable)}

\* the greatest number of entries of the directory loaded and of paths of a
\* manifest
MaxEntries == 2

N_r == <<"r">>

N_s == <<"s">>

N_t == <<"t">>

SubDirs == {Dir(N_s, es) : es \in SeqsUpTo(BatchFiles, 1)}

\* the directory r that is loaded: files, a directory and a link to nowhere
Loaded ==
  {Dir(N_r, es) : es \in {l \in SeqsUpTo(BatchFiles \cup SubDirs \cup {Link(<<"l",".","y","a","m","l">>)},
                                         MaxEntries) : DistinctBy(l, "name")}}

\* a second directory t inside t, with a directory r that holds another
\* a.yaml: what a path with t joined twice finds
Twin == Dir(N_t, << Dir(N_r, << File(N_aYaml, FileData(Str(<<"z">>), Arr(<<D_leaf>>))) >>) >>)

\* the file system: the root holds t, which holds r, with or without the
\* second t
Tree(r, twin) == Dir(<<>>, << Dir(N_t, <<r>> \o twin) >>)

Twins == {<<>>, <<Twin>>}

\* the working directories of the process
WorkingDirs == {<<"/">>, <<"/","t">>}

\* the base paths: none, absolute and relative
BasePaths == {<<>>, <<"/","t">>, N_t}

\* the paths the caller asks for: relative, absolute, relative from the
\* root, and absolute through a directory that is there (r) and through one
\* that is not (z)
AskedPaths ==
  {N_r, <<"/","t","/","r">>, <<"t","/","r">>,
   <<"/","t","/","r","/",".",".","/","r">>, <<"/","t","/","z","/",".",".","/","r">>}

\* the manifests: a name and a list of paths to a valid file, to invalid
\* files, to a directory and to nothing, and an entry that is no string
ManifestEntries ==
  {Str(N_aYaml), Str(N_cYaml), Str(N_dYml), Str(N_s), Str(<<"x",".","y","a","m","l">>), Num(1)}

Manifest(paths) ==
  ObjOf(<< [k |-> F_name, v |-> Str(<<"l">>)], [k |-> F_templates, v |-> paths] >>)

\* what library.yaml parses to: a manifest, a manifest whose templates are a
\* string or missing, the empty file, and a text js-yaml rejects
Manifests ==
  {Manifest(Arr(ps)) : ps \in SeqsUpTo(ManifestEntries, MaxEntries)}
    \cup {Manifest(Str(N_s)), Manifest(Undef), Undef, Null, Unparsable}

\* the files beside library.yaml
LibraryFiles ==
  << File(N_aYaml, FileData(Str(<<"a">>), Arr(<<D_leaf>>))),
     File(N_cYaml, ObjOf(<< [k |-> F_meta, v |-> Obj(Tail(FullMeta))] >>)),
     File(N_dYml, FileData(Str(<<"d">>), Arr(<<D_leaf, D_noTitle>>))),
     Dir(N_s, <<>>) >>

\* the directory r of a library: with library.yaml, without it, and with a
\* directory of that name
LibraryDirs ==
  {Dir(N_r, LibraryFiles \o <<File(S_libraryYaml, m)>>) : m \in Manifests}
    \cup {Dir(N_r, LibraryFiles), Dir(N_r, LibraryFiles \o <<Dir(S_libraryYaml, <<>>)>>)}

\* the loaders on the file systems that hold r
LoadersOf(dirs) ==
  {TemplateLoader(Tree(r, twin), cwd, basePath) :
     r \in dirs, twin \in Twins, cwd \in WorkingDirs, basePath \in BasePaths}

(***************************************************************************)
(* The loader machine: data are handed to validate, and dropped            *)
(***************************************************************************)
\* validate(data): the caller keeps the data and what the call returned or
\* threw
Validate(data) ==
  /\ arg = None
  /\ arg' = [data |-> data]
  /\ res' = validate(data)
  /\ UNCHANGED <<heap, templates, helpers, now, compiled, rendered>>

\* the caller drops the data and the result
Forget ==
  /\ arg # None
  /\ arg' = None
  /\ res' = None
  /\ UNCHANGED <<heap, templates, helpers, now, compiled, rendered>>

\* loadDirectory(dirPath) by a loader
LoadDirectory(loader, dirPath) ==
  /\ arg = None
  /\ arg' = [loader |-> loader, dir |-> dirPath]
  /\ res' = loadDirectory(loader, dirPath)
  /\ UNCHANGED <<heap, templates, helpers, now, compiled, rendered>>

\* loadLibrary(libraryPath) by a loader
LoadLibrary(loader, libraryPath) ==
  /\ arg = None
  /\ arg' = [loader |-> loader, library |-> libraryPath]
  /\ res' = loadLibrary(loader, libraryPath)
  /\ UNCHANGED <<heap, templates, helpers, now, compiled, rendered>>

NextLoader ==
  \/ \E data \in LoaderData : Validate(data)
  \/ \E loader \in LoadersOf(Loaded), dirPath \in AskedPaths : LoadDirectory(loader, dirPath)
  \/ \E loader \in LoadersOf(LibraryDirs), libraryPath \in AskedPaths :
       LoadLibrary(loader, libraryPath)
  \/ Forget

SpecLoader == InitEngine /\ [][NextLoader]_vars

(***************************************************************************)
(* The engine under re-registration: the caller registers templates, some  *)
(* under an id already taken, keeps the list of what it registered, and    *)
(* compiles                                                                *)
(***************************************************************************)
\* the greatest number of register calls
MaxRegistrations == 3

\* what the caller registered so far, in the order of the calls
Log == IF arg = None THEN <<>> ELSE arg.log

\* registerTemplate(template), noted by the caller
Register(t) ==
  /\ compiled = None
  /\ Len(Log) < MaxRegistrations
  /\ templates' = RegSet(templates, t)
  /\ arg' = [log |-> Append(Log, t)]
  /\ UNCHANGED <<heap, helpers, now, compiled, rendered, res>>

\* a that extends b, b without and with a parent, and c
RegistryTemplates ==
  {InhTemplate(N_a, N_b), InhTemplate(N_b, <<>>), InhTemplate(N_b, N_c), InhTemplate(N_c, <<>>)}

NextRegistry ==
  \/ \E t \in RegistryTemplates : Register(t)
  \/ \E t \in RegistryTemplates : Compile(t, [variables |-> <<>>])
  \/ Discard

SpecRegistry == InitEngine /\ [][NextRegistry]_vars

(***************************************************************************)
(* Interpolation of texts with several conditional blocks                  *)
(***************************************************************************)
\* {{#if a}}X{{/if}}
IfBlock == T_if \o <<" ">> \o N_a \o RB \o <<"X">> \o T_endif

\* {{#if b}}Y{{else}}Z{{/if}}
IfElseBlock == T_if \o <<" ">> \o N_b \o RB \o <<"Y">> \o T_else \o <<"Z">> \o T_endif

\* {{#unless a}}U{{/unless}}
UnlessBlock == T_unless \o <<" ">> \o N_a \o RB \o <<"U">> \o T_endunless

BlockPieces == {IfBlock, IfElseBlock, UnlessBlock, <<" ", "-", " ">>}

\* a mapping from the values of a and b, an undefined value for a variable
\* the mapping does not have
MapOf(va, vb) ==
  SelectSeq(<< [k |-> N_a, v |-> va], [k |-> N_b, v |-> vb] >>, LAMBDA e : e.v # Undef)

BlockValues == {Undef, Null, Bool(TRUE), Bool(FALSE), Str(<<>>), Num(0)}

InitBlocks ==
  /\ heap = <<>>
  /\ templates = <<>>
  /\ helpers = InitHelpers
  /\ now = 0
  /\ compiled = None
  /\ rendered = None
  /\ arg \in {[n |-> 0, text |-> <<>>, variables |-> MapOf(va, vb)] :
               va \in BlockValues, vb \in BlockValues}
  /\ res = None

NextBlocks ==
  \/ \E p \in BlockPieces : Write(p)
  \/ Interpolate

SpecBlocks == InitBlocks /\ [][NextBlocks]_vars

(***************************************************************************)
(* Interpolation of each-blocks over arrays and over other values          *)
(***************************************************************************)
N_list == <<"l","i","s","t">>

\* {{#each list}}[{{@index}}{{this}}{{@first}}{{@last}}]{{/each}}
EachAll ==
  T_each \o <<" ">> \o N_list \o RB
    \o <<"[">> \o T_index \o T_this \o <<",">> \o T_first \o <<",">> \o T_last \o <<"]">>
    \o T_endeach

LoopPieces == {EachAll, <<"<">>, <<">">>}

\* the values of list: arrays of zero to three elements, among them the
\* record { "a(": 1 }, and values that are no arrays
LoopValues ==
  {Undef, Null, Str(<<"p","q">>), Num(2), Obj(<< [k |-> <<"0">>, v |-> Str(<<"p">>)] >>),
   Arr(<<>>), Arr(<<Str(<<"p">>)>>), Arr(<<Str(<<"p">>), Num(5)>>),
   Arr(<<Str(<<"q">>), Null, Bool(FALSE)>>), Arr(<<Str(<<>>), Str(<<"p">>), Str(<<"p">>)>>),
   Arr(<< Obj(<< [k |-> <<"a","(">>, v |-> Num(1)] >>) >>)}

InitLoops ==
  /\ heap = <<>>
  /\ templates = <<>>
  /\ helpers = InitHelpers
  /\ now = 0
  /\ compiled = None
  /\ rendered = None
  /\ arg \in {[n |-> 0, text |-> <<>>,
               variables |-> SelectSeq(<< [k |-> N_list, v |-> x], [k |-> N_x, v |-> Num(1)] >>,
                                       LAMBDA e : e.v # Undef)] : x \in LoopValues}
  /\ res = None

NextLoops ==
  \/ \E p \in LoopPieces : Write(p)
  \/ Interpolate

SpecLoops == InitLoops /\ [][NextLoops]_vars

(***************************************************************************)
(* Interpolation with a helper registered by registerHelper                *)
(***************************************************************************)
N_h == <<"h">>

N_y == <<"y">>

\* this.helpers.set(name, helper)
registerHelper(hs, name, helper) == MapSet(hs, "k", [k |-> name, v |-> helper])

\* {{#if x}}A{{/if}}
IfA == T_if \o <<" ">> \o N_x \o RB \o <<"A">> \o T_endif

\* {{#if x}}B{{/if}}
IfB == T_if \o <<" ">> \o N_x \o RB \o <<"B">> \o T_endif

\* {{#if x}}D{{/if}}
IfD == T_if \o <<" ">> \o N_x \o RB \o <<"D">> \o T_endif

\* {{#if x}}{{h}}{{/if}}
IfH == T_if \o <<" ">> \o N_x \o RB \o Ref(N_h) \o T_endif

\* {{#each items}}{{this}}{{/each}}
EachThis == T_each \o <<" ">> \o N_items \o RB \o T_this \o T_endeach

\* the texts the registered helper returns
HelperTexts == {Ref(N_x), IfA}

PassPieces == {Ref(N_h), Ref(N_x), Ref(N_y), Ref(N_z), IfH, EachThis}

\* y holds a helper call, z a conditional block, items the text of a
\* conditional block and of a helper call; x is V or absent
PassMap(x) ==
  SelectSeq(<< [k |-> N_x, v |-> x],
               [k |-> N_y, v |-> Str(Ref(N_h))],
               [k |-> N_z, v |-> Str(IfB)],
               [k |-> N_items, v |-> Arr(<<Str(IfD), Str(Ref(N_h))>>)] >>,
            LAMBDA e : e.v # Undef)

InitPasses ==
  /\ heap = <<>>
  /\ templates = <<>>
  /\ helpers = InitHelpers
  /\ now = 0
  /\ compiled = None
  /\ rendered = None
  /\ arg \in {[n |-> 0, text |-> <<>>, variables |-> PassMap(x)] : x \in {Undef, Str(<<"V">>)}}
  /\ res = None

\* registerHelper(name, () => text)
RegisterHelper(name, text) ==
  /\ helpers' = registerHelper(helpers, name, ConstHelper(text))
  /\ res' = None
  /\ UNCHANGED <<heap, templates, now, compiled, rendered, arg>>

NextPasses ==
  \/ \E text \in HelperTexts : RegisterHelper(N_h, text)
  \/ \E p \in PassPieces : Write(p)
  \/ Interpolate

SpecPasses == InitPasses /\ [][NextPasses]_vars

(***************************************************************************)
(* Interpolation of helper calls with argument tokens of every kind        *)
(***************************************************************************)
K_7 == <<"7">>

K_k == <<"'","k","'">>

K_Ab == <<"\"","A","b","\"">>

K_cd == <<"'","c","d","'">>

K_12 == <<"1","2">>

K_m5 == <<"-","5">>

K_zz == <<"z","z">>

K_1x == <<"1","x">>

\* the argument tokens: a name, a numeric token and a quoted token that are
\* keys of some mappings, quoted texts, numbers, and other tokens, one of
\* them a name that Object.prototype has
Tokens == {N_u, K_7, K_k, K_Ab, K_cd, K_12, K_m5, S_m999999, K_zz, K_1x, N_constructor}

TokenPairs == { <<N_u, K_cd>>, <<K_k, K_7>>, <<K_zz, K_12>> }

\* {{helper token}}
Call1(helper, a) == LB \o helper \o <<" ">> \o a \o RB

\* {{helper token  token}}
Call2(helper, a, b) == LB \o helper \o <<" ">> \o a \o <<" "," ">> \o b \o RB

ArgPieces ==
  {Call1(h, a) : h \in {H_uppercase, H_length}, a \in Tokens}
    \cup {Call2(H_default, pr[1], pr[2]) : pr \in TokenPairs}
    \cup {Call1(S_nope, N_u), Call2(S_nope, K_Ab, K_12)}

ArgMaps ==
  { <<>>,
    << [k |-> N_u, v |-> Null] >>,
    << [k |-> N_u, v |-> Str(<<"a","b">>)], [k |-> K_7, v |-> Str(<<"s","e","v","e","n">>)],
       [k |-> K_k, v |-> Arr(<<Num(1), Num(2), Num(3)>>)] >> }

InitArgs ==
  /\ heap = <<>>
  /\ templates = <<>>
  /\ helpers = InitHelpers
  /\ now = 0
  /\ compiled = None
  /\ rendered = None
  /\ arg \in {[n |-> 0, text |-> <<>>, variables |-> m] : m \in ArgMaps}
  /\ res = None

NextArgs ==
  \/ \E p \in ArgPieces : Write(p)
  \/ Interpolate

SpecArgs == InitArgs /\ [][NextArgs]_vars

(***************************************************************************)
(* A template the loader produced, compiled against a registered parent    *)
(***************************************************************************)
N_p == <<"p">>

S_number == <<"n","u","m","b","e","r">>

\* the parent p: a variable x with a label, a type and required set; a
\* section b with content, an order, a condition and a nested section
ParentFull ==
  [meta |-> [id |-> N_p, name |-> <<"P">>],
   variables |-> << [name |-> N_x, label |-> Str(<<"E","x">>), type |-> Str(S_number),
                     required |-> Bool(TRUE)] >>,
   sections |-> << [id |-> N_a, title |-> <<"A">>, content |-> <<"a">>, order |-> Num(1)],
                   [id |-> N_b, title |-> <<"T">>, content |-> <<"C">>, order |-> Num(2),
                    condition |-> [variable |-> N_x, operator |-> O_exists],
                    sections |-> << [id |-> N_c, title |-> <<"N">>, content |-> <<"n">>] >>] >>]

\* a parent with the bare variable and the bare section only
ParentBare ==
  [meta |-> [id |-> N_p, name |-> <<"P">>],
   variables |-> << [name |-> N_x] >>,
   sections |-> << [id |-> N_b, title |-> <<"T">>, content |-> <<"C">>] >>]

LoadedParents == {ParentFull, ParentBare}

\* a variable x written with name and default only, and with every field of
\* the parent's written again
ChildVariables ==
  { Arr(<< Obj(<< [k |-> F_name, v |-> Str(N_x)], [k |-> F_default, v |-> Num(5)] >>) >>),
    Arr(<< Obj(<< [k |-> F_name, v |-> Str(N_x)], [k |-> F_default, v |-> Num(5)],
                  [k |-> F_label, v |-> Str(<<"W">>)], [k |-> F_type, v |-> Str(S_number)],
                  [k |-> F_required, v |-> Bool(TRUE)] >>) >>),
    Arr(<<>>) }

\* a section b written with id and title only, and with content and order, and
\* a section with a condition before a section b
ChildSections ==
  { Arr(<< Obj(<< [k |-> F_id, v |-> Str(N_b)], [k |-> F_title, v |-> Str(<<"U">>)] >>) >>),
    Arr(<< Obj(<< [k |-> F_id, v |-> Str(N_b)], [k |-> F_title, v |-> Str(<<"U">>)],
                  [k |-> F_content, v |-> Str(<<"D">>)], [k |-> F_order, v |-> Num(3)] >>) >>),
    Arr(<< Obj(<< [k |-> F_id, v |-> Str(N_c)], [k |-> F_title, v |-> Str(<<"K">>)],
                  [k |-> F_condition,
                   v |-> Obj(<< [k |-> F_variable, v |-> Str(N_x)],
                                [k |-> F_operator, v |-> O_exists] >>)] >>),
           Obj(<< [k |-> F_id, v |-> Str(N_b)], [k |-> F_title, v |-> Str(<<"U">>)],
                  [k |-> F_content, v |-> Num(7)] >>) >>),
    Arr(<<>>) }

\* the parsed YAML of a child of p, and of a template without parent
ChildData(vs, ss, parent) ==
  ObjOf(<< [k |-> F_meta, v |-> Obj(FullMeta)], [k |-> F_extends, v |-> parent],
           [k |-> F_variables, v |-> vs], [k |-> F_sections, v |-> ss] >>)

LoadedData ==
  {ChildData(vs, ss, parent) :
     vs \in ChildVariables, ss \in ChildSections, parent \in {Undef, Str(N_p)}}

\* engine.compile(template, { variables: {} }) on the template the loader
\* returned
CompileLoaded ==
  /\ res # None
  /\ res.status = "ok"
  /\ Compile(res.template, [variables |-> <<>>])

NextLoaded ==
  \/ \E data \in LoadedData : Validate(data)
  \/ \E t \in LoadedParents : RegisterTemplate(t)
  \/ CompileLoaded
  \/ Discard
  \/ Forget

SpecLoaded == InitEngine /\ [][NextLoaded]_vars

(***************************************************************************)
(* Claims on variable resolution (properties of SpecVariables)             *)
(***************************************************************************)
\* the call of compile the caller holds the result of
Held == compiled # None

InputTemplate == compiled.input.template

InputProvided == compiled.input.context.variables

HeldOk == Held /\ compiled.result.status = "ok"

HeldError(error) ==
  Held /\ compiled.result.status = "error" /\ compiled.result.error = error

\* the value a mapping holds under a key, undefined when it has no entry
\* under that key
Given(m, k) ==
  IF \E i \in 1..Len(m) : m[i].k = k
  THEN m[CHOOSE i \in 1..Len(m) : m[i].k = k].v
  ELSE Undef

\* the fields of the child laid over the fields of the parent
Overlay(parent, child) ==
  [f \in DOMAIN parent \cup DOMAIN child |->
     IF f \in DOMAIN child THEN child[f] ELSE parent[f]]

\* the merged list the claim describes, for lists with unique keys: the
\* parent's items in the parent's order, each overlaid by the child's item of
\* the same key, then the child's other items in the child's order
ExpectedMerge(parent, child, key) ==
  LET ChildOnly(v) == \A i \in 1..Len(parent) : parent[i][key] # v[key] IN
  [i \in 1..Len(parent) |->
     IF \E j \in 1..Len(child) : child[j][key] = parent[i][key]
     THEN Overlay(parent[i], child[CHOOSE j \in 1..Len(child) : child[j][key] = parent[i][key]])
     ELSE parent[i]]
    \o SelectSeq(child, ChildOnly)

\* the parent the held compile resolved extends against
HeldParent == templates[RegIdx(templates, InputTemplate.extends)]

\* the variables the input template declares after inheritance resolution:
\* its own, merged onto those of its parent when it extends the registered
\* parent, which extends nothing
DeclaredAfter ==
  IF NoExtends(InputTemplate) THEN InputTemplate.variables
  ELSE ExpectedMerge(HeldParent.variables, InputTemplate.variables, "name")

\* the declared variables that are required, have no default and were given
\* no value by the caller: their indices in the schema
MissingIn(defs, provided) ==
  {i \in 1..Len(defs) :
     /\ ~Falsy(Get(defs[i], "required"))
     /\ Get(defs[i], "default") = Undef
     /\ Given(provided, defs[i].name) = Undef}

\* C3: compile fails with the missing-required-variable error exactly when,
\* after inheritance resolution, some declared variable is required, has no
\* default and has no caller-provided value; the error names the first such
\* variable in declaration order, and no compiled template is produced.
C3_MissingRequiredVariable ==
  (Held /\ (NoExtends(InputTemplate) \/ RegIdx(templates, InputTemplate.extends) # 0)) =>
    LET defs == DeclaredAfter
        missing == MissingIn(defs, InputProvided)
    IN  /\ HeldError("Required variable missing") <=> missing # {}
        /\ missing # {} =>
             /\ compiled.result.name = defs[FirstOf(missing)].name
             /\ DOMAIN compiled.result \cap {"template", "sections", "variables"} = {}
        /\ (InputProvided = <<>> /\ \A i \in 1..Len(defs) : Get(defs[i], "default") # Undef)
             => compiled.result.status = "ok"

\* the mapping the claim describes: the declared variables that have a
\* provided value or a default, in declaration order, then the provided keys
\* the schema does not declare, in the caller's order
ExpectedResolved(defs, provided) ==
  LET Has(d) == Given(provided, d.name) # Undef \/ Get(d, "default") # Undef
      declared == SelectSeq(defs, Has)
      Extra(e) == \A i \in 1..Len(defs) : defs[i].name # e.k
  IN  [i \in 1..Len(declared) |->
         [k |-> declared[i].name,
          v |-> IF Given(provided, declared[i].name) # Undef
                THEN Given(provided, declared[i].name)
                ELSE declared[i].default]]
        \o SelectSeq(provided, Extra)

\* C4: when resolution succeeds the resolved mapping holds, for each declared
\* variable, the provided value if there is one, else the default if there is
\* one, and every provided key the schema does not declare; declared
\* variables first in declaration order, undeclared keys after them.
C4_ResolvedMapping ==
  HeldOk =>
    compiled.result.variables
      = ExpectedResolved(compiled.result.template.variables, InputProvided)

\* C9: the merged variable list holds each name once: the parent's variables
\* in the parent's order, then the child-only variables in the child's order;
\* a child variable with the name of a parent variable overrides the fields
\* it specifies and keeps the parent's other fields, at the parent's place.
C9_MergedVariables ==
  (HeldOk /\ ~NoExtends(InputTemplate)) =>
    LET merged == compiled.result.template.variables IN
    /\ DistinctBy(merged, "name")
    /\ merged = ExpectedMerge(HeldParent.variables, InputTemplate.variables, "name")

\* a merge in which the child gives only the default of a parent variable
\* that has a label and a type, the parent has another variable, and the
\* child adds one
C9_Witness ==
  /\ HeldOk
  /\ ~NoExtends(InputTemplate)
  /\ LET merged == compiled.result.template.variables IN
     /\ Len(merged) = 3
     /\ Len(HeldParent.variables) = 2
     /\ \E j \in 1..Len(InputTemplate.variables) :
          /\ DOMAIN InputTemplate.variables[j] = {"name", "default"}
          /\ InputTemplate.variables[j].name = merged[2].name
          /\ DOMAIN merged[2] = {"name", "default", "label", "type"}

(***************************************************************************)
(* Claims on section trees (properties of SpecSections)                    *)
(***************************************************************************)
\* the sections the claim keeps: those without a condition or whose condition
\* evaluates to true, in declared order, each with the kept sections of its
\* nested list; as a tree of ids
\* whether a condition of the section inputs is true, from its words: equals
\* is true when the mapping holds the comparand under the variable,
\* not_exists when it holds nothing under it
Holds(condition, variables) ==
  IF condition.operator = O_equals
  THEN \E i \in 1..Len(variables) :
         variables[i].k = condition.variable /\ variables[i].v = condition.value
  ELSE \A i \in 1..Len(variables) : variables[i].k # condition.variable

RECURSIVE ExpectedTree(_, _)
ExpectedTree(sections, variables) ==
  LET Visible(sec) == "condition" \notin DOMAIN sec \/ Holds(sec.condition, variables)
      kept == SelectSeq(sections, Visible)
  IN  [i \in 1..Len(kept) |->
         IF "sections" \in DOMAIN kept[i]
         THEN [id |-> kept[i].id, sections |-> ExpectedTree(kept[i].sections, variables)]
         ELSE [id |-> kept[i].id]]

\* the tree of ids of a compiled section list
RECURSIVE IdTree(_)
IdTree(sections) ==
  [i \in 1..Len(sections) |->
     IF "sections" \in DOMAIN sections[i]
     THEN [id |-> sections[i].id, sections |-> IdTree(sections[i].sections)]
     ELSE [id |-> sections[i].id]]

\* C5: compileSections returns, in declared order, exactly the sections whose
\* condition is absent or true; a section whose condition is false is omitted
\* with all its descendants, and a kept section has its nested sections
\* compiled by the same rule.
C5_CompiledSections ==
  HeldOk =>
    IdTree(compiled.result.sections)
      = ExpectedTree(compiled.result.template.sections, compiled.result.variables)

\* the section of the resolved template with a false condition
Pruned(sec) ==
  "condition" \in DOMAIN sec /\ ~Holds(sec.condition, compiled.result.variables)

\* a compile with hasAuth = false that omitted a section with the condition
\* hasAuth equals true, and with it a nested section whose own condition is
\* true and one without condition, and kept another section
C5_Witness ==
  /\ HeldOk
  /\ InputProvided = << [k |-> N_hasAuth, v |-> Bool(FALSE)] >>
  /\ LET secs == compiled.result.template.sections IN
     /\ \E i \in 1..Len(secs) :
          /\ Pruned(secs[i])
          /\ secs[i].condition = CondAuth
          /\ "sections" \in DOMAIN secs[i]
          /\ \E j \in 1..Len(secs[i].sections) : "condition" \notin DOMAIN secs[i].sections[j]
          /\ \A k \in 1..Len(compiled.result.sections) :
               compiled.result.sections[k].id # secs[i].id
     /\ Len(compiled.result.sections) >= 1

\* the order of a section, a missing order counted as 0; the orders of the
\* inputs are numbers
OrderKey(section) == IF "order" \in DOMAIN section THEN section.order.n ELSE 0

\* ascending by order, sections of equal order in the order of the list
\* inserted
SortedStable(list, inserted) ==
  LET Ins(id) == CHOOSE i \in 1..Len(inserted) : inserted[i].id = id IN
  /\ {list[i].id : i \in 1..Len(list)} = {inserted[i].id : i \in 1..Len(inserted)}
  /\ Len(list) = Len(inserted)
  /\ \A i, j \in 1..Len(list) :
       i < j =>
         \/ OrderKey(list[i]) < OrderKey(list[j])
         \/ OrderKey(list[i]) = OrderKey(list[j]) /\ Ins(list[i].id) < Ins(list[j].id)

\* the section of id in a list, a section without fields when there is none
SectionOf(list, id) ==
  IF \E i \in 1..Len(list) : list[i].id = id
  THEN list[CHOOSE i \in 1..Len(list) : list[i].id = id]
  ELSE [id |-> id]

\* C10: after inheritance resolution of a template with extends, the
\* top-level section list, and every nested list that the parent section and
\* the child section of the same id both define, is sorted ascending by order
\* (missing order = 0), sections of equal order in merge-insertion order.
C10_SectionsSorted ==
  (HeldOk /\ ~NoExtends(InputTemplate)) =>
    LET merged == compiled.result.template.sections
        parent == HeldParent.sections
        child == InputTemplate.sections
    IN  /\ SortedStable(merged, ExpectedMerge(parent, child, "id"))
        /\ \A i \in 1..Len(merged) :
             LET ps == SectionOf(parent, merged[i].id)
                 cs == SectionOf(child, merged[i].id)
             IN  ("sections" \in DOMAIN ps /\ "sections" \in DOMAIN cs) =>
                   SortedStable(merged[i].sections,
                                ExpectedMerge(ps.sections, cs.sections, "id"))

\* a merge whose insertion order is not ascending, with two sections of equal
\* order, and with a nested list merged from both sides that the sort reorders
C10_Witness ==
  /\ HeldOk
  /\ ~NoExtends(InputTemplate)
  /\ LET merged == compiled.result.template.sections
         inserted == ExpectedMerge(HeldParent.sections, InputTemplate.sections, "id")
     IN  /\ Len(merged) >= 3
         /\ \E i, j \in 1..Len(inserted) : i < j /\ OrderKey(inserted[i]) > OrderKey(inserted[j])
         /\ \E i, j \in 1..Len(merged) : i # j /\ OrderKey(merged[i]) = OrderKey(merged[j])
         /\ \E i \in 1..Len(merged) :
              /\ "sections" \in DOMAIN SectionOf(HeldParent.sections, merged[i].id)
              /\ "sections" \in DOMAIN SectionOf(InputTemplate.sections, merged[i].id)
              /\ Len(merged[i].sections) = 3
              /\ merged[i].sections
                   # ExpectedMerge(SectionOf(HeldParent.sections, merged[i].id).sections,
                                   SectionOf(InputTemplate.sections, merged[i].id).sections,
                                   "id")

(***************************************************************************)
(* Claims on interpolation (properties of SpecInterpolate)                 *)
(***************************************************************************)
Interpolated == res # None /\ res.status = "interpolated"

Processed == res # None /\ res.status = "processed"

\* the names of the bare references {{name}} of a text
BareNames(s) == {VarRefAt(s, j).name : j \in {i \in 1..Len(s) : VarRefAt(s, i).ok}}

\* every brace of the text belongs to a reference {{name}}
PlainOnly(s) ==
  \A i \in 1..Len(s) :
    s[i] \in {"{", "}"} =>
      \E j \in 1..i : VarRefAt(s, j).ok /\ i < VarRefAt(s, j).next

\* C1: for every name that is not a key of the variable mapping, a text
\* containing the bare reference {{name}} is interpolated, without error, to a
\* text containing {{name}}.  It is stated for the texts in which every brace
\* belongs to a bare reference, where no block and no argument list can hold
\* the reference.
C1_UnknownReferenceKept ==
  (Interpolated /\ PlainOnly(arg.text)) =>
    \A name \in BareNames(arg.text) :
      (\A i \in 1..Len(arg.variables) : arg.variables[i].k # name) =>
        /\ ~Threw(res.out)
        /\ Includes(res.out, Ref(name))

\* C2: {{join techStack "<sep>"}} with techStack an array interpolates to the
\* elements joined with <sep>, for every separator, separators with spaces
\* included.
C2_JoinQuotedSeparator ==
  Interpolated =>
    \A sep \in Separators :
      (arg.text = JoinCall(sep) /\ Given(arg.variables, N_techStack).t = "arr") =>
        res.out = ArrJoin(Given(arg.variables, N_techStack).a, sep)

\* the string form of the value has a brace
HasBrace(value) == \E i \in 1..Len(ToStr(value)) : ToStr(value)[i] \in {"{", "}"}

\* C7 as stated: a template whose texts have only plain references, processed
\* with a mapping that has a value for every referenced name, renders to a
\* text without {{ and }}.
C7_Original ==
  (Processed /\ PlainOnly(arg.text) /\ BareNames(arg.text) \subseteq Keys(arg.variables)) =>
    /\ res.compiled.status = "ok"
    /\ res.rendered.status = "ok"
    /\ ~Includes(res.rendered.text, LB)
    /\ ~Includes(res.rendered.text, RB)

\* the value has a string form: it is no object with an own property
\* toString, and no array that holds a value without string form
RECURSIVE HasStringForm(_)
HasStringForm(value) ==
  CASE value.t = "obj" -> \A i \in 1..Len(value.o) : value.o[i].k # N_toString
    [] value.t = "arr" ->
         \A i \in 1..Len(value.a) : HasStringForm(value.a[i])
    [] OTHER -> TRUE

\* C7: a template whose name, titles and contents have only plain references,
\* processed with a mapping that has a value for every referenced name and in
\* which every value has a string form, one without a brace, renders to a
\* text without {{ and }}.
C7_RenderedWithoutMarkers ==
  (/\ Processed
   /\ PlainOnly(arg.text)
   /\ BareNames(arg.text) \subseteq Keys(arg.variables)
   /\ \A i \in 1..Len(arg.variables) :
        HasStringForm(arg.variables[i].v) /\ ~HasBrace(arg.variables[i].v)) =>
    /\ res.compiled.status = "ok"
    /\ res.rendered.status = "ok"
    /\ ~Includes(res.rendered.text, LB)
    /\ ~Includes(res.rendered.text, RB)

\* Hi {{x}} processed with x = Ada
C7_Witness ==
  /\ Processed
  /\ arg.text = <<"H","i"," ">> \o Ref(N_x)
  /\ Given(arg.variables, N_x) = Str(S_Ada)
  /\ res.rendered.status = "ok"
  /\ Includes(res.rendered.text, <<"H","i"," ">> \o S_Ada)

\* every brace of the text belongs to an expression {{...}} without braces
\* between its markers
WellFormed(s) ==
  LET ExprEnd(j) == FindClass(s, j + 2, {"{", "}"})
      IsExpr(j) == MatchAt(s, j, LB) /\ ExprEnd(j) > j + 2 /\ MatchAt(s, ExprEnd(j), RB)
  IN  \A i \in 1..Len(s) :
        s[i] \in {"{", "}"} => \E j \in 1..i : IsExpr(j) /\ i < ExprEnd(j) + 2

\* the string form of the value, of an element of it, or of a field of an
\* element, has a brace
HasBraceInside(value) ==
  \/ HasBrace(value)
  \/ /\ value.t = "arr"
     /\ \E i \in 1..Len(value.a) :
          \/ HasBrace(value.a[i])
          \/ \E j \in 1..Len(EntriesOf(value.a[i])) : HasBrace(EntriesOf(value.a[i])[j].v)

\* a title or a content of the compiled sections has {{name}} for a key of
\* the resolved variables whose value is defined
KeptKeyReference(c) ==
  \E i \in 1..Len(CompiledTexts(c.sections)), k \in 1..Len(c.variables) :
    /\ c.variables[k].v # Undef
    /\ Includes(CompiledTexts(c.sections)[i], Ref(c.variables[k].k))

\* C8: after compile no title and no content, at any depth, has a reference
\* {{name}} for a key of the resolved variables whose value is defined.  It
\* is stated for the templates whose titles and contents are well formed
\* (every brace belongs to an expression {{...}} with no brace inside) and
\* the variables whose values, elements and element fields have no brace in
\* their string form, where no substituted text can bring a reference in; a
\* key of a loop element, compiled into a pattern as it is, still leaves one.
C8_NoKeyReferenceLeft ==
  (/\ Processed
   /\ res.compiled.status = "ok"
   /\ WellFormed(arg.text)
   /\ \A i \in 1..Len(arg.variables) : ~HasBraceInside(arg.variables[i].v)) =>
    ~KeptKeyReference(res.compiled)

(***************************************************************************)
(* Claims on merged sections (properties of SpecSections)                  *)
(***************************************************************************)
IdsOf(list) == {list[i].id : i \in 1..Len(list)}

RECURSIVE SectionMerged(_, _, _)
RECURSIVE ListMerged(_, _, _)
\* m is the merge of the parent section p and the child section c of the same
\* id: every field of c, the other fields of p, and for sections the merge of
\* the two nested lists when c has one, the list of p when it has none
SectionMerged(m, p, c) ==
  /\ DOMAIN m = DOMAIN p \cup DOMAIN c
  /\ \A f \in DOMAIN m \ {"sections"} : m[f] = IF f \in DOMAIN c THEN c[f] ELSE p[f]
  /\ "sections" \in DOMAIN m =>
       IF "sections" \in DOMAIN c
       THEN ListMerged(m.sections, SectionsOrEmpty(p), c.sections)
       ELSE m.sections = p.sections

\* ml has one section for each id of pl and cl: the merge of the two when
\* both have the id, the section of the one that has it otherwise
ListMerged(ml, pl, cl) ==
  /\ IdsOf(ml) = IdsOf(pl) \cup IdsOf(cl)
  /\ Len(ml) = Cardinality(IdsOf(pl) \cup IdsOf(cl))
  /\ \A i \in 1..Len(ml) :
       IF ml[i].id \in IdsOf(pl) /\ ml[i].id \in IdsOf(cl)
       THEN SectionMerged(ml[i], SectionOf(pl, ml[i].id), SectionOf(cl, ml[i].id))
       ELSE IF ml[i].id \in IdsOf(cl) THEN ml[i] = SectionOf(cl, ml[i].id)
       ELSE ml[i] = SectionOf(pl, ml[i].id)

\* C11: in inheritance resolution a child section with the id of a parent
\* section gives one merged section with every field the child specifies and
\* the parent's value for every other field; nested lists are merged by the
\* same rule when the child has one and the parent's list is kept when it has
\* none; child sections with a new id are added and parent sections without
\* counterpart are kept.
C11_SectionsMerged ==
  (HeldOk /\ ~NoExtends(InputTemplate)) =>
    ListMerged(compiled.result.template.sections, HeldParent.sections,
               InputTemplate.sections)

\* a nested list merged from a parent list and a child list that share an id
C11_Witness ==
  /\ HeldOk
  /\ ~NoExtends(InputTemplate)
  /\ \E i \in 1..Len(compiled.result.template.sections) :
       LET id == compiled.result.template.sections[i].id IN
       /\ "sections" \in DOMAIN SectionOf(HeldParent.sections, id)
       /\ "sections" \in DOMAIN SectionOf(InputTemplate.sections, id)
       /\ Len(compiled.result.template.sections[i].sections) = 3
       /\ SectionOf(HeldParent.sections, id).sections
            # SectionOf(InputTemplate.sections, id).sections

(***************************************************************************)
(* Claims on chains of templates (properties of SpecInheritance)           *)
(***************************************************************************)
\* the registered template of an id; only used where the id is registered
Registered(id) == templates[RegIdx(templates, id)]

IsRegistered(id) == RegIdx(templates, id) # 0

\* m is the flat template that merging child onto the flat template flat
\* gives: meta overlaid, variables merged by name, sections merged by id at
\* every level and the top level sorted, prompts concatenated
MergedOnto(m, flat, child) ==
  /\ DOMAIN m = {"meta", "variables", "sections", "prompts"}
  /\ m.meta = Overlay(flat.meta, child.meta)
  /\ m.variables = ExpectedMerge(flat.variables, child.variables, "name")
  /\ ListMerged(m.sections, flat.sections, child.sections)
  /\ SortedStable(m.sections, ExpectedMerge(flat.sections, child.sections, "id"))
  /\ m.prompts = PromptsOrEmpty(flat) \o PromptsOrEmpty(child)

\* the held compile is of a template A extending a registered B that extends a
\* registered C without extends
HeldChain ==
  /\ Held
  /\ ~NoExtends(InputTemplate)
  /\ IsRegistered(InputTemplate.extends)
  /\ ~NoExtends(Registered(InputTemplate.extends))
  /\ IsRegistered(Registered(InputTemplate.extends).extends)
  /\ NoExtends(Registered(Registered(InputTemplate.extends).extends))

\* C12: for a chain A extends B extends C with B and C registered and C
\* without extends, resolving A gives the flat template obtained by first
\* resolving B against C and then merging A onto that flattened result.
C12_ChainFlattened ==
  HeldChain =>
    /\ HeldOk
    /\ MergedOnto(resolveInheritance(Registered(InputTemplate.extends), templates).template,
                  Registered(Registered(InputTemplate.extends).extends),
                  Registered(InputTemplate.extends))
    /\ MergedOnto(compiled.result.template,
                  resolveInheritance(Registered(InputTemplate.extends), templates).template,
                  InputTemplate)

\* a extends b extends c: the flat template has the variables and sections of
\* all three and the prompts of c followed by those of a
C12_Witness ==
  /\ HeldChain /\ HeldOk
  /\ InputTemplate.meta.id = N_a /\ InputTemplate.extends = N_b
  /\ Registered(N_b).extends = N_c
  /\ Len(compiled.result.template.variables) = 4
  /\ Len(compiled.result.template.sections) = 4
  /\ compiled.result.template.prompts = << <<"p","c">>, <<"q","c">>, <<"p","a">> >>
  /\ compiled.result.template.meta
       = [id |-> N_a, name |-> <<"A">>, description |-> <<"d">>, author |-> <<"w">>]

\* C13: a template without extends resolves to itself, whatever the registry
\* holds: the compiled template is the input with the same meta, variables,
\* prompts and sections, the sections in the order they were declared.
C13_NoExtendsIdentity ==
  (Held /\ NoExtends(InputTemplate)) =>
    /\ resolveInheritance(InputTemplate, templates) = [ok |-> TRUE, template |-> InputTemplate]
    /\ HeldOk => compiled.result.template = InputTemplate

\* c without extends, its sections declared out of order, compiled while the
\* registry holds three templates, among them another c that extends a
C13_Witness ==
  /\ HeldOk
  /\ InputTemplate = InhTemplate(N_c, <<>>)
  /\ OrderKey(InputTemplate.sections[1]) > OrderKey(InputTemplate.sections[2])
  /\ compiled.result.template.sections = InputTemplate.sections
  /\ Len(templates) = 3
  /\ IsRegistered(N_c) /\ Registered(N_c) = InhTemplate(N_c, N_a)

\* where following extends from a template through the registry ends: at a
\* template without extends ("root"), at an id that is not registered
\* ("missing", with the id), or at a registered id already passed ("cycle")
RECURSIVE ChainEnd(_, _, _)
ChainEnd(template, registry, seen) ==
  IF NoExtends(template) THEN [end |-> "root"]
  ELSE IF RegIdx(registry, template.extends) = 0
  THEN [end |-> "missing", id |-> template.extends]
  ELSE IF template.extends \in seen THEN [end |-> "cycle"]
  ELSE ChainEnd(registry[RegIdx(registry, template.extends)], registry,
                seen \cup {template.extends})

HeldEnd == ChainEnd(InputTemplate, templates, {})

\* C15 as stated: resolution over a cycle of registered templates never
\* ends, so no compile over a cycle ever has an outcome.
C15_Original ==
  Held =>
    /\ HeldEnd.end # "cycle"
    /\ ~HeldError("Maximum call stack size exceeded")

\* C15: resolution ends with a flat template or the parent-not-found error
\* whenever following extends reaches a template without extends or an id
\* that is not registered; when the links form a cycle among registered
\* templates, a template extending its own id included, the recursion ends
\* with the runtime's error for an exhausted call stack, which is no cycle
\* error, and no compiled template is produced.
C15_ResolutionEnds ==
  Held =>
    /\ HeldEnd.end = "root" => resolveInheritance(InputTemplate, templates).ok
    /\ HeldEnd.end = "missing" => HeldError("Parent template not found")
    /\ HeldEnd.end = "cycle" =>
         /\ HeldError("Maximum call stack size exceeded")
         /\ DOMAIN compiled.result \cap {"template", "sections", "variables"} = {}
    /\ HeldError("Maximum call stack size exceeded") => HeldEnd.end = "cycle"

\* a extends b, and the registered b and c extend each other
C15_Witness ==
  /\ Held
  /\ HeldEnd.end = "cycle"
  /\ HeldError("Maximum call stack size exceeded")
  /\ InputTemplate = InhTemplate(N_a, N_b)
  /\ IsRegistered(N_b) /\ Registered(N_b) = InhTemplate(N_b, N_c)
  /\ IsRegistered(N_c) /\ Registered(N_c) = InhTemplate(N_c, N_b)

(***************************************************************************)
(* Claims on conditions (properties of SpecConditions)                     *)
(***************************************************************************)
HeldCondition == InputTemplate.sections[1].condition

\* the compiled sections include the section under the condition
Included == \E i \in 1..Len(compiled.result.sections) : compiled.result.sections[i].id = S_cond

\* the resolved mapping has the condition variable
Present ==
  \E i \in 1..Len(compiled.result.variables) :
    compiled.result.variables[i].k = HeldCondition.variable

\* the entry of the condition variable in the resolved mapping
HeldValue ==
  compiled.result.variables[
    CHOOSE i \in 1..Len(compiled.result.variables) :
      compiled.result.variables[i].k = HeldCondition.variable]

\* the variable is defined, non-null and not the empty string
NonEmpty == Present /\ HeldValue.v \notin {Undef, Null, Str(<<>>)}

\* C16: a section under not_exists is included when the variable is absent
\* from the resolved mapping and excluded when it is present and non-empty;
\* for every value, exists holds exactly when the value is defined, non-null
\* and not the empty string, and not_exists is its exact negation.
C16_ExistsOperators ==
  HeldOk =>
    /\ HeldCondition.operator = O_exists => (Included <=> NonEmpty)
    /\ HeldCondition.operator = O_not_exists => (Included <=> ~NonEmpty)
    /\ (HeldCondition.operator = O_not_exists /\ ~Present) => Included

\* the value of the condition variable, undefined when the resolved mapping
\* has none
ValueOrUndef == IF Present THEN HeldValue.v ELSE Undef

\* lit occurs in s as a run of consecutive characters
Substring(s, lit) == \E i \in 0..Len(s) : i + Len(lit) <= Len(s) /\ SubSeq(s, i + 1, i + Len(lit)) = lit

\* the element is the comparand: the same array or object, or the same
\* string, number, boolean, null or undefined
IsElement(element, comparand) ==
  IF comparand.t \in {"arr", "obj"}
  THEN element.t = comparand.t /\ "ref" \in DOMAIN element /\ "ref" \in DOMAIN comparand
         /\ element.ref = comparand.ref
  ELSE element = comparand

\* the string form of the comparands of the inputs, each as JavaScript
\* writes it; undefined is the comparand of a condition without value
Written(comparand) ==
  CASE comparand.t = "str" -> comparand.s
    [] comparand = Num(1) -> <<"1">>
    [] comparand = Num(0 - 999999) -> <<"-","9","9","9","9","9","9">>
    [] comparand = NaN -> <<"N","a","N">>
    [] comparand = Null -> <<"n","u","l","l">>
    [] comparand = Bool(TRUE) -> <<"t","r","u","e">>
    [] comparand = Undef -> <<"u","n","d","e","f","i","n","e","d">>
    [] comparand.t = "arr" -> <<"a">>

\* contains as the claim states it: membership of the comparand in an array,
\* the comparand's string form as a substring of a string, false otherwise
ExpectedContains(value, comparand) ==
  IF value.t = "arr" THEN \E i \in 1..Len(value.a) : IsElement(value.a[i], comparand)
  ELSE IF value.t = "str" THEN Substring(value.s, Written(comparand))
  ELSE FALSE

\* the value of the condition variable in the mapping compile resolves for
\* the call, undefined when that mapping has none
ResolvedValue ==
  Given(resolveVariables(InputTemplate.variables, InputProvided).variables,
        HeldCondition.variable)

\* the section under the condition is compiled exactly when contains, or
\* not_contains, holds as the claim states it
ContainsAsStated ==
  /\ HeldOk
  /\ HeldCondition.operator = O_contains =>
       (Included <=> ExpectedContains(ValueOrUndef, Get(HeldCondition, "value")))
  /\ HeldCondition.operator = O_not_contains =>
       (Included <=> ~ExpectedContains(ValueOrUndef, Get(HeldCondition, "value")))

\* C17 as stated: for every value of the variable and every comparand,
\* contains is array membership when the value is an array, substring
\* containment when it is a string, and false otherwise, an absent variable
\* included; not_contains is the exact negation of contains in all three
\* cases.
C17_Original ==
  (Held /\ HeldCondition.operator \in {O_contains, O_not_contains}) => ContainsAsStated

\* C17: contains and not_contains are as stated for every value of the
\* variable and every comparand, but for a string value with a comparand that
\* has no string form: the evaluation of the condition then throws a
\* TypeError, and so does compile.
C17_ContainsOperators ==
  (Held /\ HeldCondition.operator \in {O_contains, O_not_contains}) =>
    IF ResolvedValue.t = "str" /\ ~HasStringForm(Get(HeldCondition, "value"))
    THEN HeldError("TypeError")
    ELSE ContainsAsStated

\* not_contains 1 on the number 0, neither array nor string: the section is
\* included
C17_Witness ==
  /\ HeldOk
  /\ HeldCondition.operator = O_not_contains
  /\ "value" \in DOMAIN HeldCondition /\ HeldCondition.value = Num(1)
  /\ Present /\ HeldValue.v = Num(0)
  /\ Included

(***************************************************************************)
(* Claim on the default helper (property of SpecInterpolate)               *)
(***************************************************************************)
\* C18: {{default flag "x"}} renders x whenever flag is absent from the
\* mapping, null, false or the empty string, and the value of flag otherwise.
C18_DefaultFallsBack ==
  (Interpolated /\ arg.text = DefaultCall) =>
    res.out = IF IsTruthy(Given(arg.variables, N_flag))
              THEN ToStr(Given(arg.variables, N_flag))
              ELSE <<"x">>

(***************************************************************************)
(* Claim on rendering (property of SpecRender)                             *)
(***************************************************************************)
RECURSIVE StripLeft(_)
StripLeft(s) == IF s # <<>> /\ Head(s) \in SpaceCh THEN StripLeft(Tail(s)) ELSE s

RECURSIVE StripRight(_)
StripRight(s) ==
  IF s # <<>> /\ s[Len(s)] \in SpaceCh THEN StripRight(SubSeq(s, 1, Len(s) - 1)) ELSE s

Stripped(s) == StripRight(StripLeft(s))

\* the lines the claim describes for the compiled sections of a list at
\* nesting depth d, depth-first: the heading of level min(d + 1, 6), an empty
\* line, the stripped content and an empty line when the content is not
\* blank, then the children at depth d + 1
RECURSIVE ExpectedLines(_, _)
ExpectedLines(list, d) ==
  IF list = <<>> THEN <<>>
  ELSE << [i \in 1..(IF d + 1 < 6 THEN d + 1 ELSE 6) |-> "#"] \o <<" ">> \o list[1].title,
          <<>> >>
         \o (IF Stripped(list[1].content) # <<>>
             THEN << Stripped(list[1].content), <<>> >> ELSE <<>>)
         \o (IF "sections" \in DOMAIN list[1] THEN ExpectedLines(list[1].sections, d + 1)
             ELSE <<>>)
         \o ExpectedLines(Tail(list), d)

\* lines joined by line feeds
RECURSIVE Joined(_)
Joined(lines) ==
  IF lines = <<>> THEN <<>>
  ELSE IF Len(lines) = 1 THEN lines[1]
  ELSE lines[1] \o <<"\n">> \o Joined(Tail(lines))

\* the number of sections of a compiled list, nested sections included
RECURSIVE NumSections(_)
NumSections(list) ==
  IF list = <<>> THEN 0
  ELSE 1 + (IF "sections" \in DOMAIN list[1] THEN NumSections(list[1].sections) ELSE 0)
         + NumSections(Tail(list))

\* the lines of a text that begin with two number signs: the section headings
SectionHeadings(text) ==
  {i \in 1..(Len(text) - 1) :
     /\ i = 1 \/ text[i - 1] = "\n"
     /\ text[i] = "#" /\ text[i + 1] = "#"}

HeldRendered == Held /\ rendered # None /\ rendered.status = "ok"

\* the display name after interpolation: v replaced when the caller gave it
ExpectedName ==
  IF InputProvided = <<>> THEN InputTemplate.meta.name
  ELSE <<"D", " ">> \o ToStr(InputProvided[1].v)

\* C19: render emits the heading # <interpolated name>, then the compiled
\* sections depth-first in order, each with a heading of level min(d + 1, 6)
\* for nesting depth d (1 at the top), its trimmed content only when that is
\* not blank, then its children one level deeper; the output has exactly one
\* section heading per compiled section.
C19_RenderedStructure ==
  HeldRendered =>
    /\ rendered.text
         = Joined(<< <<"#", " ">> \o ExpectedName, <<>> >>
                    \o ExpectedLines(compiled.result.sections, 1))
    /\ Cardinality(SectionHeadings(rendered.text)) = NumSections(compiled.result.sections)

\* six sections nested one inside the other, the innermost under a heading
\* capped at level six, blank and non-blank contents along the chain, and the
\* section under the condition rendered after the whole chain
C19_Witness ==
  /\ HeldRendered
  /\ NumSections(compiled.result.sections) = 8
  /\ Len(compiled.result.sections) = 2
  /\ compiled.result.sections[1].content = <<" ", "C", "\n">>
  /\ compiled.result.sections[1].sections[1].content = <<" ", "\n">>
  /\ Includes(rendered.text, <<"\n","#","#","#","#","#","#"," ","T","T","T","T","T","T","\n">>)
  /\ Includes(rendered.text, <<"\n","#","#"," ","O","\n","\n","#","#","#"," ","K","\n">>)

(***************************************************************************)
(* Claim on the loader (property of SpecLoader)                            *)
(***************************************************************************)
Validated == arg # None /\ "data" \in DOMAIN arg

\* the required fields a meta section lacks, in the order of the claim
MetaFindings(meta) ==
  [i \in 1..Len(SelectSeq(RequiredMeta, LAMBDA f : Falsy(Field(meta, f)))) |->
     [error |-> "Invalid template meta",
      field |-> SelectSeq(RequiredMeta, LAMBDA f : Falsy(Field(meta, f)))[i]]]

\* the variables of a list that lack a name, with their indices from 0
RECURSIVE VariableFindings(_, _)
VariableFindings(list, i) ==
  IF i > Len(list) THEN <<>>
  ELSE (IF Falsy(Field(list[i], F_name))
        THEN << [error |-> "Invalid variable", index |-> i - 1, field |-> F_name] >>
        ELSE <<>>)
         \o VariableFindings(list, i + 1)

\* the ids and titles the sections of a list lack, depth-first: a section's
\* id, its title, its nested sections, then the next section; the index is
\* the section's index from 0 in its own list
RECURSIVE SectionFindings(_, _)
SectionFindings(list, i) ==
  IF i > Len(list) THEN <<>>
  ELSE (IF Falsy(Field(list[i], F_id))
        THEN << [error |-> "Invalid section", index |-> i - 1, field |-> F_id] >> ELSE <<>>)
         \o (IF Falsy(Field(list[i], F_title))
             THEN << [error |-> "Invalid section", index |-> i - 1, field |-> F_title] >>
             ELSE <<>>)
         \o (IF Falsy(Field(list[i], F_sections)) THEN <<>>
             ELSE SectionFindings(Field(list[i], F_sections).a, 1))
         \o SectionFindings(list, i + 1)

\* everything the data lack, meta first, then variables, then sections
Findings(data) ==
  IF Field(data, F_meta).t # "obj"
  THEN << [error |-> "Invalid template: missing meta section"] >>
  ELSE MetaFindings(Field(data, F_meta))
         \o VariableFindings(ListOrEmpty(data, F_variables).a, 1)
         \o SectionFindings(ListOrEmpty(data, F_sections).a, 1)

\* every section of a list, at every nesting level, has an id and a title
RECURSIVE SectionsComplete(_)
SectionsComplete(list) ==
  \A i \in 1..Len(list) :
    /\ {"id", "title"} \subseteq DOMAIN list[i]
    /\ list[i].id # <<>> /\ list[i].title # <<>>
    /\ "sections" \in DOMAIN list[i] => SectionsComplete(list[i].sections)

\* the sections of the data, nested sections included
RECURSIVE NumSectionsData(_)
NumSectionsData(list) ==
  IF list = <<>> THEN 0
  ELSE 1 + (IF Falsy(Field(list[1], F_sections)) THEN 0
            ELSE NumSectionsData(Field(list[1], F_sections).a))
         + NumSectionsData(Tail(list))

\* a template with every required field, and with every variable and section
\* of the data
Complete(template, data) ==
  /\ {"id", "name", "description", "version", "category", "scope"} \subseteq DOMAIN template.meta
  /\ \A f \in {"id", "name", "description", "version", "category"} : template.meta[f] # <<>>
  /\ ~Falsy(template.meta.scope)
  /\ Len(template.variables) = Len(ListOrEmpty(data, F_variables).a)
  /\ \A i \in 1..Len(template.variables) :
       "name" \in DOMAIN template.variables[i] /\ template.variables[i].name # <<>>
  /\ SectionsComplete(template.sections)
  /\ NumSections(template.sections) = NumSectionsData(ListOrEmpty(data, F_sections).a)

\* C20: validation returns a template in which the meta id, name,
\* description, version, category and scope, the name of every variable and
\* the id and title of every section at every nesting level are present, or
\* it throws the error of the first missing field, meta checked before
\* variables and variables before sections; it returns no partial template.
C20_ValidatedOrError ==
  Validated =>
    IF Findings(arg.data) = <<>>
    THEN res.status = "ok" /\ Complete(res.template, arg.data)
    ELSE /\ res = [status |-> "error"] @@ Head(Findings(arg.data))
         /\ "template" \notin DOMAIN res

\* complete meta and variables, a first section whose second nested section
\* has no title, and a second section without id: the error names the title
\* at index 1, found before the id at index 1 of the outer list
C20_Witness ==
  /\ Validated
  /\ Field(arg.data, F_meta) = Obj(FullMeta)
  /\ Field(arg.data, F_variables) = Arr(<<V_named>>)
  /\ Field(arg.data, F_sections)
       = Arr(<<SectionData(Str(<<"a">>), Str(<<"A">>), Arr(<<D_leaf, D_noTitle>>)), D_noId>>)
  /\ res = [status |-> "error", error |-> "Invalid section", index |-> 1, field |-> F_title]

(***************************************************************************)
(* Claims on batches (properties of SpecLoader)                            *)
(***************************************************************************)
\* a template file that lacks a mandatory field
InvalidFile(e) ==
  e.kind = "file" /\ isTemplateFile(e.name) /\ e.data # Unparsable
    /\ validate(e.data).status = "error"

\* the entries of a directory hold, at some depth, an invalid template file
RECURSIVE HasInvalid(_)
HasInvalid(entries) ==
  \E i \in 1..Len(entries) :
    \/ InvalidFile(entries[i])
    \/ entries[i].kind = "dir" /\ HasInvalid(entries[i].entries)

\* what the file system has at the path loadDirectory was asked for
DirectoryRead == NodeOf(arg.loader, resolvePath(arg.loader, arg.dir))

LoadedDirectory == arg # None /\ "dir" \in DOMAIN arg /\ DirectoryRead.kind = "dir"

\* the directory of the library loadLibrary was asked for, and what the file
\* system has as its library.yaml
LibraryPath == resolvePath(arg.loader, arg.library)

ManifestRead == NodeOf(arg.loader, join(LibraryPath, S_libraryYaml))

\* the paths the manifest lists
ListedPaths == Field(ManifestRead.data, F_templates).a

LoadedLibrary ==
  /\ arg # None /\ "library" \in DOMAIN arg
  /\ ManifestRead.kind = "file"
  /\ ManifestRead.data # Unparsable
  /\ Field(ManifestRead.data, F_templates).t = "arr"

\* the library lists an invalid template file: the file loadFile reads for
\* a path of the manifest
ListsInvalid ==
  \E i \in 1..Len(ListedPaths) :
    /\ ListedPaths[i].t = "str"
    /\ InvalidFile(NodeOf(arg.loader,
                          resolvePath(arg.loader, join(LibraryPath, ListedPaths[i].s))))

\* the half of C21 on libraries: a library that lists an invalid template
\* file fails to load
LibraryLoadFails == (LoadedLibrary /\ ListsInvalid) => res.status = "error"

\* C21: a batch of template files, from a directory (recursively) or from a
\* library, with a member file that lacks a mandatory field fails to load
\* with an error; no batch is returned with the invalid template left out.
C21_BatchLoadFails ==
  /\ (LoadedDirectory /\ HasInvalid(DirectoryRead.entries)) => res.status = "error"
  /\ LibraryLoadFails

(***************************************************************************)
(* Claim on the scope (property of SpecLoader)                             *)
(***************************************************************************)
Scopes == {Str(<<"m","v","p">>), Str(<<"s","t","a","n","d","a","r","d">>), Str(<<"c","o","m","p","r","e","h","e","n","s","i","v","e">>), Str(S_enterprise)}

\* C22: every template validate returns has its meta.scope among mvp,
\* standard, comprehensive and enterprise; data with any other scope are
\* rejected with an error.
C22_ScopeInEnumeration ==
  (Validated /\ res.status = "ok") => res.template.meta.scope \in Scopes

(***************************************************************************)
(* Claims on the engine on a heap (properties of Spec)                     *)
(***************************************************************************)
\* what a call of compile returned or threw, as the caller read it when the
\* call ended: the CompiledTemplate with all it holds, or the error
Seen(result) == IF result.status = "ok" THEN result.value ELSE result

\* what the last call of compile the caller made returned or threw
LastReturned(c) == IF "again" \in DOMAIN c THEN c.again.result ELSE c.result

\* the caller has compiled twice with the same arguments
Recompiled == compiled # None /\ "again" \in DOMAIN compiled

\* the template of the catalogue registered under an id is in the registry
RegisteredAt(t) ==
  \E i \in 1..Len(heap[templates].e) :
    heap[templates].e[i].k = t.meta.id /\ heap[templates].e[i].v = RefOf(t)

\* C6 as stated: compile called twice with the same template and context on
\* an unchanged registry returns the same value, for every template.
C6_Original == Recompiled => Seen(compiled.again.result) = Seen(compiled.result)

\* C6: compile called twice with the same template and context on an
\* unchanged registry returns a CompiledTemplate with the same resolved
\* template, the same resolved variables and the same section tree (or
\* throws the same error) when the first call evaluates no call of the date
\* helper, that is, reads the clock at no time.
C6_RecompileIdentical ==
  (Recompiled /\ compiled.readings = 0) =>
    Seen(compiled.again.result) = Seen(compiled.result)

\* child, which calls uppercase and not date, compiled against base at two
\* instants: both results have the prompts of base and of child once, and
\* the second is another object than the first
C6_Witness ==
  /\ Recompiled
  /\ compiled.result.status = "ok"
  /\ compiled.readings = 0
  /\ compiled.again.at > compiled.at
  /\ compiled.input.template = RefOf(T_child)
  /\ RegisteredAt(T_base)
  /\ compiled.again.result.r # compiled.result.r
  /\ compiled.again.result.value.template.prompts = << <<"p">>, <<"q">> >>
  /\ \E i \in 1..Len(compiled.result.value.sections) :
       compiled.result.value.sections[i].content = toUpperCase(S_Go)

\* where following extends from the template at a reference through the
\* registry of a heap ends
EndAt(h, registry, template) ==
  ChainEnd(LoadTemplate(h, template), LoadRegistry(h, registry), {})

\* C14: a call of compile on a template whose extends, or whose ancestor's
\* extends anywhere along the chain, names an id that is not registered
\* throws the parent-not-found error naming that id and returns no
\* CompiledTemplate; after the call the registry is the same Map with the
\* same entries, and every registered template is what it was.
C14_ParentNotFound ==
  [][(compiled' # compiled /\ EndAt(heap, templates, compiled'.input.template).end = "missing") =>
       /\ LastReturned(compiled').status = "error"
       /\ LastReturned(compiled').error = "Parent template not found"
       /\ LastReturned(compiled').name = EndAt(heap, templates, compiled'.input.template).id
       /\ DOMAIN LastReturned(compiled') \cap {"r", "value"} = {}
       /\ templates' = templates
       /\ heap'[templates] = heap[templates]
       /\ LoadRegistry(heap', templates) = LoadRegistry(heap, templates)]_vars

\* heir extends orphan, which is registered with base, and orphan extends an
\* id that is not registered: the error names that id, not orphan
C14_Witness ==
  /\ compiled # None
  /\ compiled.input.template = RefOf(T_heir)
  /\ RegisteredAt(T_orphan)
  /\ RegisteredAt(T_base)
  /\ compiled.result.status = "error"
  /\ compiled.result.error = "Parent template not found"
  /\ compiled.result.name = T_orphan.extends

\* C23: a call of compile or of render, on success and on failure, leaves
\* every object that was there before the call as it was: the two maps of
\* the engine, which the engine still holds, the template passed in, every
\* registered template with its meta, its variable definitions, its
\* sections and its prompts, and the context and the variable mapping of
\* the caller.
C23_NoSideEffects ==
  [][(compiled' # compiled \/ rendered' # rendered) =>
       /\ templates' = templates
       /\ helpers' = helpers
       /\ Len(heap') >= Len(heap)
       /\ \A r \in 1..Len(heap) : heap'[r] = heap[r]]_vars

\* child compiled against the registered base with a value of the caller,
\* compiled again and rendered: the calls made new objects, the variable
\* definition of base that child overrides and the sections of base, which
\* are declared out of order, are as the caller wrote them
C23_Witness ==
  /\ Recompiled
  /\ compiled.result.status = "ok"
  /\ rendered # None /\ rendered.status = "ok"
  /\ compiled.input.template = RefOf(T_child)
  /\ heap[heap[compiled.input.context].f.variables].e # <<>>
  /\ RegisteredAt(T_base)
  /\ Len(heap) > Len(StoredContexts.h)
  /\ LoadTemplate(heap, RefOf(T_base)) = T_base
  /\ compiled.result.value.template.sections[1].id = S_body

(***************************************************************************)
(* Claim on the registry (property of SpecRegistry)                        *)
(***************************************************************************)
\* the register calls of the log made under an id
CallsUnder(id) == {i \in 1..Len(Log) : Log[i].meta.id = id}

\* the template most recently registered under an id; only used where there
\* is one
LastRegistered(id) == Log[CHOOSE i \in CallsUnder(id) : \A j \in CallsUnder(id) : j <= i]

\* C24: after any sequence of register calls the registry holds, for each
\* id, exactly the template most recently registered under it: getTemplate
\* returns it, listTemplates has one entry per distinct id, and a compile of
\* a child resolves extends against that entry, with nothing of an earlier
\* registration.
C24_LatestRegistration ==
  /\ \A id \in InhIds :
       getTemplate(templates, id)
         = IF CallsUnder(id) = {} THEN None
           ELSE [status |-> "found", template |-> LastRegistered(id)]
  /\ Len(listTemplates(templates)) = Cardinality({Log[i].meta.id : i \in 1..Len(Log)})
  /\ (Held /\ ~NoExtends(InputTemplate) /\ CallsUnder(InputTemplate.extends) # {}
        /\ NoExtends(LastRegistered(InputTemplate.extends))) =>
       /\ HeldOk
       /\ MergedOnto(compiled.result.template, LastRegistered(InputTemplate.extends),
                     InputTemplate)

\* b registered with parent c, c registered, then b registered again without
\* parent: a extends b compiles against the last b and has nothing of c
C24_Witness ==
  /\ Log = <<InhTemplate(N_b, N_c), InhTemplate(N_c, <<>>), InhTemplate(N_b, <<>>)>>
  /\ HeldOk
  /\ InputTemplate = InhTemplate(N_a, N_b)
  /\ Len(templates) = 2
  /\ Len(compiled.result.template.variables) = 3
  /\ compiled.result.template.prompts = << <<"p","a">> >>

(***************************************************************************)
(* Claim on conditional blocks (property of SpecBlocks)                    *)
(***************************************************************************)
\* C25: {{#if a}}X{{/if}} followed by {{#if b}}Y{{else}}Z{{/if}} renders X
\* when a is truthy and nothing otherwise, followed by Y when b is truthy and
\* Z otherwise, for every truthiness of a and b.
C25_BlocksByOwnVariable ==
  (Interpolated /\ arg.text = IfBlock \o IfElseBlock) =>
    res.out = (IF IsTruthy(Given(arg.variables, N_a)) THEN <<"X">> ELSE <<>>)
                \o (IF IsTruthy(Given(arg.variables, N_b)) THEN <<"Y">> ELSE <<"Z">>)

(***************************************************************************)
(* Claim on the fields of loop elements (property of SpecInterpolate)      *)
(***************************************************************************)
\* C26: in {{#each items}}{{name}}{{this}}{{/each}} over records, {{name}}
\* renders in iteration i the name of element i, whatever top-level variables
\* the mapping holds; the text outside the body is left as written.
C26_ElementFieldInBody ==
  (Interpolated /\ arg.text = <<"H","i"," ">> \o EachCall
     /\ Given(arg.variables, N_items) = V_items) =>
    res.out = <<"H","i"," ">> \o <<"A">> \o S_object \o <<"B">> \o S_object

(***************************************************************************)
(* Claim on each-blocks (property of SpecLoops)                            *)
(***************************************************************************)
\* the text the claim describes for the elements of an array from element i
\* (counted from 1) on: [ index element , first , last ] per element, with
\* nothing between
RECURSIVE ExpectedIterations(_, _)
ExpectedIterations(a, i) ==
  IF i > Len(a) THEN <<>>
  ELSE <<"[">> \o NatStr(i - 1) \o ToStr(a[i])
         \o <<",">> \o (IF i = 1 THEN S_true ELSE S_false)
         \o <<",">> \o (IF i = Len(a) THEN S_true ELSE S_false) \o <<"]">>
         \o ExpectedIterations(a, i + 1)

\* what the each-block over list renders to
ExpectedLoop ==
  IF Given(arg.variables, N_list).t = "arr"
  THEN ExpectedIterations(Given(arg.variables, N_list).a, 1)
  ELSE <<>>

\* C27: an each-block over an array of n elements renders its body n times in
\* element order with nothing between, none for n = 0; in iteration i, from
\* 0, {{this}} is the stringified element, {{@index}} is i, {{@first}} is
\* true exactly for i = 0 and {{@last}} exactly for i = n - 1; over a value
\* that is no array the block renders nothing.
C27_EachRendersPerElement ==
  Interpolated =>
    /\ arg.text = EachAll => res.out = ExpectedLoop
    /\ arg.text = <<"<">> \o EachAll => res.out = <<"<">> \o ExpectedLoop
    /\ arg.text = EachAll \o <<">">> => res.out = ExpectedLoop \o <<">">>
    /\ arg.text = EachAll \o EachAll => res.out = ExpectedLoop \o ExpectedLoop

(***************************************************************************)
(* Claim on the order of the passes (property of SpecPasses)               *)
(***************************************************************************)
\* what {{h}} ends as: the text the helper returns, as it is, and the
\* expression itself while no helper is registered under h
ExpectedH ==
  IF Given(helpers, N_h) = Undef THEN Ref(N_h) ELSE Given(helpers, N_h).s

XPresent == Given(arg.variables, N_x) # Undef

\* what a piece ends as when the passes run in the order plain substitution,
\* conditional blocks, loop blocks, helper calls, and nothing a helper
\* returns is processed
ExpectedPiece(p) ==
  CASE p = Ref(N_h) -> ExpectedH
    [] p = Ref(N_x) -> IF XPresent THEN <<"V">> ELSE Ref(N_x)
    [] p = Ref(N_y) -> ExpectedH
    [] p = Ref(N_z) -> IF XPresent THEN <<"B">> ELSE <<>>
    [] p = IfH -> IF XPresent THEN ExpectedH ELSE <<>>
    [] p = EachThis -> IfD \o ExpectedH

\* C28: the passes run in the order plain substitution, conditional blocks,
\* loop blocks, helper calls, each on the output of the one before, and the
\* text a helper returns is inserted as it is and processed by no pass: a
\* helper returning {{x}} or {{#if x}}A{{/if}} leaves that text in the
\* output, also when x is in the mapping.
C28_PassOrder ==
  Interpolated =>
    \A p \in PassPieces :
      /\ arg.text = p => res.out = ExpectedPiece(p)
      /\ \A q \in PassPieces :
           arg.text = p \o q => res.out = ExpectedPiece(p) \o ExpectedPiece(q)

\* the helper returns {{#if x}}A{{/if}}, x is in the mapping, and the text
\* calls the helper through the variable y and inside a conditional block
C28_Witness ==
  /\ Interpolated
  /\ XPresent
  /\ Given(helpers, N_h) = ConstHelper(IfA)
  /\ arg.text = Ref(N_y) \o IfH
  /\ res.out = IfA \o IfA

(***************************************************************************)
(* Claim on the arguments of helper calls (property of SpecArgs)           *)
(***************************************************************************)
IsKey(token) == \E i \in 1..Len(arg.variables) : arg.variables[i].k = token

ValueOfKey(token) ==
  arg.variables[CHOOSE i \in 1..Len(arg.variables) : arg.variables[i].k = token].v

\* what a token stands for when it is no key of the mapping
LiteralOf(token) ==
  CASE token = N_u -> Str(<<"u">>)
    [] token = K_7 -> Num(7)
    [] token = K_k -> Str(<<"k">>)
    [] token = K_Ab -> Str(<<"A","b">>)
    [] token = K_cd -> Str(<<"c","d">>)
    [] token = K_12 -> Num(12)
    [] token = K_m5 -> Num(0 - 5)
    [] token = S_m999999 -> Num(0 - 999999)
    [] token = N_constructor -> Str(N_constructor)
    [] token = K_zz -> Str(<<"z","z">>)
    [] token = K_1x -> Str(<<"1","x">>)

ExpectedArg(token) == IF IsKey(token) THEN ValueOfKey(token) ELSE LiteralOf(token)

\* what a call ends as
ExpectedCall(p) ==
  IF \E a \in Tokens : p = Call1(H_uppercase, a)
  THEN ToStr(HelperUppercase(<<ExpectedArg(CHOOSE a \in Tokens : p = Call1(H_uppercase, a))>>))
  ELSE IF \E a \in Tokens : p = Call1(H_length, a)
  THEN ToStr(HelperLength(<<ExpectedArg(CHOOSE a \in Tokens : p = Call1(H_length, a))>>))
  ELSE IF \E pr \in TokenPairs : p = Call2(H_default, pr[1], pr[2])
  THEN LET pr == CHOOSE pr \in TokenPairs : p = Call2(H_default, pr[1], pr[2]) IN
       ToStr(HelperDefault(<<ExpectedArg(pr[1]), ExpectedArg(pr[2])>>))
  ELSE p

\* C29: each whitespace-separated argument token of a helper call is resolved
\* on its own by the first rule that applies: a key of the mapping gives the
\* variable's value, also when the token is quoted or numeric; a token in
\* single or double quotes gives the text between the quotes; a token that
\* parses as a number gives the number; any other token gives itself as a
\* string.  A call to a name that is no registered helper stays as it is.
C29_ArgumentResolution ==
  Interpolated =>
    \A p \in ArgPieces :
      /\ arg.text = p => res.out = ExpectedCall(p)
      /\ \A q \in ArgPieces :
           arg.text = p \o q => res.out = ExpectedCall(p) \o ExpectedCall(q)

(***************************************************************************)
(* Claim on inheritance for templates the loader produced (property of     *)
(* SpecLoaded)                                                             *)
(***************************************************************************)
\* the child of p whose variable x has name and default only and whose
\* section b has id and title only
ChildOmitting ==
  ChildData(Arr(<< Obj(<< [k |-> F_name, v |-> Str(N_x)], [k |-> F_default, v |-> Num(5)] >>) >>),
            Arr(<< Obj(<< [k |-> F_id, v |-> Str(N_b)], [k |-> F_title, v |-> Str(<<"U">>)] >>) >>),
            Str(N_p))

\* the variable x and the section b of the resolved template
ResolvedVariable ==
  compiled.result.template.variables[
    MapIdx(compiled.result.template.variables, "name", N_x)]

ResolvedSection ==
  compiled.result.template.sections[
    MapIdx(compiled.result.template.sections, "id", N_b)]

\* C30: for a child the loader produced and a registered parent, every field
\* the child's definition omits keeps the parent's value after inheritance
\* resolution: the variable written with name and default only ends with the
\* parent's label, type and required, and the section written with id and
\* title only ends with the parent's content, order, condition and nested
\* sections.
C30_OmittedFieldsInherited ==
  (/\ HeldOk
   /\ InputTemplate = validate(ChildOmitting).template
   /\ IsRegistered(N_p)
   /\ Registered(N_p) = ParentFull) =>
    /\ ResolvedVariable.default = Num(5)
    /\ ResolvedVariable.label = ParentFull.variables[1].label
    /\ ResolvedVariable.type = ParentFull.variables[1].type
    /\ ResolvedVariable.required = ParentFull.variables[1].required
    /\ ResolvedSection.title = <<"U">>
    /\ ResolvedSection.content = ParentFull.sections[2].content
    /\ ResolvedSection.order = ParentFull.sections[2].order
    /\ ResolvedSection.condition = ParentFull.sections[2].condition
    /\ ResolvedSection.sections = ParentFull.sections[2].sections
====
